---- MODULE Spec2Model ----
(***************************************************************************)
(* Turn Restriction Validator (hudhud-restriction-validator).              *)
(*                                                                         *)
(* The backend (validation engine, cache service, Overpass client, API     *)
(* routes) is modelled from the code quoted and described in               *)
(* DOCUMENTATION.md / CODE_REVIEW.md / README, and from the design         *)
(* specification where the repository gives no code.                       *)
(***************************************************************************)
EXTENDS Integers, Sequences, FiniteSets, TLC

VARIABLES
    raw,        \* engine: the parsed upstream response handed to validate()
    validated,  \* engine: the list of ValidatedRestriction validate() returned
    engineDone, \* engine: TRUE once validate() has run on raw
    cache,      \* CacheService._cache: the TTLCache's entries, least recently used first
    now,        \* the cache's timer (seconds)
    lastOp,     \* history: the latest cache operation and what it returned
    insertedAt, \* history: key -> time of its latest set; -1 when not set since the
                \* latest clear, -2 when that clear dropped it while live
    readSince,  \* history: keys that were read with a hit since their latest set
    useOrder,   \* history: keys by their latest use (set or hit), oldest first
    boxes,      \* key derivation: the two bounding boxes whose keys are taken
    keys,       \* key derivation: their cache keys, <<>> until computed
    client,     \* OverpassClient.fetch_restrictions: the state of one call
    calls,      \* history: what the upstream answered to each attempt of the call
    req,        \* API: per in-flight request, where its handler stands
    lastDone,   \* history: what the latest step of a route did: the response it
                \* returned, or the upstream call it started
    ui          \* frontend: the React state of App and its hooks

engineVars == <<raw, validated, engineDone>>

cacheVars == <<cache, now>>

cacheHist == <<lastOp, insertedAt, readSince, useOrder>>

keyVars == <<boxes, keys>>

fetchVars == <<client, calls>>

apiVars == <<req, lastDone>>

uiVars == <<ui>>

vars == <<raw, validated, engineDone, cache, now, lastOp, insertedAt,
          readSince, useOrder, boxes, keys, client, calls, req, lastDone, ui>>

-----------------------------------------------------------------------------
(* Bounds of the model *)

\* longest batch of relations in one upstream response
MaxRelations == 2

\* Settings.cache_ttl_seconds (default 300) and the cache's max size (default
\* 1000) are configuration; the model runs a small configuration
cache_ttl_seconds == 2

cache_max_size == 2

\* the timer stops advancing here
MaxClock == 3

\* coordinates of the key derivation range over this many steps of 10^-5
\* degree above the base box
CoordSpread == 12

\* the retry hint (seconds) a rate-limit response may carry
RetryAfterHint == 3

\* OverpassClient: attempts per call ("3 retries")
max_retries == 3

-----------------------------------------------------------------------------
(* Issue & status model: types/index.ts, validation/models.py *)

IssueSeverity == {"error", "warning"}

RestrictionStatus == {"ok", "warning", "error"}

Issue(code, severity) == [code |-> code, severity |-> severity]

\* any(pred(i) for i in issues)
AnySeverity(issues, sev) == \E i \in 1..Len(issues) : issues[i].severity = sev

\* a plausible slip: the two branches test the severities the wrong way round
compute_status_swapped(issues) ==
    IF AnySeverity(issues, "warning") THEN "warning"
    ELSE IF AnySeverity(issues, "error") THEN "error"
    ELSE "ok"

\* ValidatedRestriction.compute_status(): ERROR > WARNING > OK
compute_status(issues) ==
    IF AnySeverity(issues, "error") THEN "error"
    ELSE IF AnySeverity(issues, "warning") THEN "warning"
    ELSE "ok"

-----------------------------------------------------------------------------
(* Elements of an upstream response.  A relation is                        *)
(* [id, members, restriction, oneway_conflict]; a member is                *)
(* [role, type, ref].  restriction = "none" stands for a relation without  *)
(* a restriction tag.  The element index is the set of ids of the          *)
(* elements the response carries besides the relations themselves.         *)

Member(role, type, ref) == [role |-> role, type |-> type, ref |-> ref]

\* the eight known turn-restriction values
TURN_RESTRICTION_TYPES ==
    {"no_left_turn", "no_right_turn", "no_straight_on", "no_u_turn",
     "only_left_turn", "only_right_turn", "only_straight_on", "only_u_turn"}

\* access restrictions, a distinct family
ACCESS_RESTRICTION_TYPES == {"no_entry", "no_exit"}

MembersWithRole(rel, role) ==
    SelectSeq(rel.members, LAMBDA m : m.role = role)

HasRole(rel, role) == Len(MembersWithRole(rel, role)) > 0

-----------------------------------------------------------------------------
(* Rules: check(relation, elements_by_id) -> list[Issue] *)

MissingMemberRule(rel, role, code) ==
    IF HasRole(rel, role) THEN <<>> ELSE <<Issue(code, "error")>>

MissingFromMemberRule(rel, index) ==
    MissingMemberRule(rel, "from", "missing_from_member")

MissingToMemberRule(rel, index) ==
    MissingMemberRule(rel, "to", "missing_to_member")

\* a copy of the "to" rule that kept its role
MissingViaMemberRule_checksTo(rel, index) ==
    MissingMemberRule(rel, "to", "missing_via_member")

MissingViaMemberRule(rel, index) ==
    MissingMemberRule(rel, "via", "missing_via_member")

\* a type rule that also fires when no member has the role
InvalidTypeRule_absentIsInvalid(rel, role, allowed, code) ==
    IF \A i \in 1..Len(rel.members) :
          rel.members[i].role = role => rel.members[i].type \notin allowed
    THEN <<Issue(code, "error")>>
    ELSE <<>>

\* one issue when some member with the role has a type outside allowed;
\* no issue (and no failure) when no member has the role
InvalidTypeRule(rel, role, allowed, code) ==
    IF \E i \in 1..Len(rel.members) :
          rel.members[i].role = role /\ rel.members[i].type \notin allowed
    THEN <<Issue(code, "error")>>
    ELSE <<>>

InvalidFromTypeRule(rel, index) ==
    InvalidTypeRule(rel, "from", {"way"}, "invalid_from_type")

InvalidToTypeRule(rel, index) ==
    InvalidTypeRule(rel, "to", {"way"}, "invalid_to_type")

\* a via rule that accepts ways only
InvalidViaTypeRule_waysOnly(rel, index) ==
    InvalidTypeRule(rel, "via", {"way"}, "invalid_via_type")

InvalidViaTypeRule(rel, index) ==
    InvalidTypeRule(rel, "via", {"node", "way"}, "invalid_via_type")

MissingRestrictionTagRule(rel, index) ==
    IF rel.restriction = "none"
    THEN <<Issue("missing_restriction_tag", "error")>>
    ELSE <<>>

UnrecognizedRestrictionTypeRule(rel, index) ==
    IF rel.restriction # "none" /\ rel.restriction \notin TURN_RESTRICTION_TYPES
    THEN <<Issue("unrecognized_restriction_type", "warning")>>
    ELSE <<>>

\* a rule that looks up the way members only
NonExistentMemberRule_waysOnly(rel, index) ==
    LET missing == SelectSeq(rel.members,
                       LAMBDA m : m.type = "way" /\ m.ref \notin index)
    IN  [i \in 1..Len(missing) |-> Issue("nonexistent_member", "warning")]

\* one warning per member whose ref the response does not carry
NonExistentMemberRule(rel, index) ==
    LET missing == SelectSeq(rel.members, LAMBDA m : m.ref \notin index)
    IN  [i \in 1..Len(missing) |-> Issue("nonexistent_member", "warning")]

\* the connectivity test is a heuristic over way geometry; the relation
\* carries its verdict, and the rule needs both ways to be resolvable
OnewayInconsistencyRule(rel, index) ==
    IF /\ rel.oneway_conflict
       /\ \E i \in 1..Len(rel.members) :
             /\ rel.members[i].role \in {"from", "to"}
             /\ rel.members[i].type = "way"
             /\ rel.members[i].ref \in index
    THEN <<Issue("oneway_inconsistency", "warning")>>
    ELSE <<>>

\* ALL_RULES, run in registry order; the issues are concatenated
RunAllRules(rel, index) ==
    MissingFromMemberRule(rel, index)
    \o MissingToMemberRule(rel, index)
    \o MissingViaMemberRule(rel, index)
    \o InvalidFromTypeRule(rel, index)
    \o InvalidToTypeRule(rel, index)
    \o InvalidViaTypeRule(rel, index)
    \o MissingRestrictionTagRule(rel, index)
    \o UnrecognizedRestrictionTypeRule(rel, index)
    \o NonExistentMemberRule(rel, index)
    \o OnewayInconsistencyRule(rel, index)

-----------------------------------------------------------------------------
(* Validation engine *)

\* _compute_location: the via node's coordinate, else the via way's, else
\* None; coordinates are abstracted to the id of the element they come from
compute_location(rel, index) ==
    LET vias == SelectSeq(rel.members,
                    LAMBDA m : m.role = "via" /\ m.type \in {"node", "way"}
                               /\ m.ref \in index)
    IN  IF Len(vias) > 0 THEN vias[1].ref ELSE 0

\* _validate_relation: run the rules, derive location, then compute_status()
validate_relation(rel, index) ==
    LET issues == RunAllRules(rel, index)
    IN  [issues           |-> issues,
         members          |-> rel.members,
         id               |-> rel.id,
         restriction_type |-> rel.restriction,
         status           |-> compute_status(issues),
         location         |-> compute_location(rel, index)]

\* no filtering: every restriction relation is validated
IsTurnRestriction_all(rel) == TRUE

\* only turn restrictions are validated; access restrictions are filtered out
IsTurnRestriction(rel) == rel.restriction \notin ACCESS_RESTRICTION_TYPES

\* an engine that drops the relations it cannot place on the map
validate_dropping_unlocated(data) ==
    LET selected == SelectSeq(data.relations,
                        LAMBDA r : IsTurnRestriction(r)
                                   /\ compute_location(r, data.index) # 0)
    IN  [i \in 1..Len(selected) |-> validate_relation(selected[i], data.index)]

\* ValidationEngine.validate(overpass_data)
validate(data) ==
    LET selected == SelectSeq(data.relations, IsTurnRestriction)
    IN  [i \in 1..Len(selected) |-> validate_relation(selected[i], data.index)]

CountStatus(restrictions, st) ==
    Cardinality({i \in 1..Len(restrictions) : restrictions[i].status = st})

\* meta of a response: counts of status values
Summary(restrictions) ==
    [total    |-> Len(restrictions),
     errors   |-> CountStatus(restrictions, "error"),
     warnings |-> CountStatus(restrictions, "warning"),
     ok       |-> CountStatus(restrictions, "ok")]

-----------------------------------------------------------------------------
(* Inputs of the engine *)

\* ids of the elements a restriction's members point to
MemberIds == [from |-> 1, to |-> 2, via |-> 3]

FromWay == MemberIds.from

ToWay == MemberIds.to

ViaNode == MemberIds.via

MemberChoices(role, ref, types) ==
    {<<>>} \cup {<<Member(role, t, ref)>> : t \in types}

RestrictionValues ==
    {"none", "no_left_turn", "only_straight_on", "no_entry", "no_exit",
     "no_uturn_typo"}

Relations(id) ==
    { [members |-> f \o t \o v, restriction |-> r, oneway_conflict |-> c,
       id |-> id] :
        f \in MemberChoices("from", FromWay, {"way", "node"}),
        t \in MemberChoices("to", ToWay, {"way", "node"}),
        v \in MemberChoices("via", ViaNode, {"node", "way", "relation"}),
        r \in RestrictionValues,
        c \in BOOLEAN }

\* a well-formed restriction and one without members or tag
GoodRelation(id) ==
    [members |-> <<Member("from", "way", FromWay), Member("to", "way", ToWay),
                   Member("via", "node", ViaNode)>>,
     restriction |-> "no_left_turn",
     oneway_conflict |-> FALSE, id |-> id]

EmptyRelation(id) ==
    [members |-> <<>>, restriction |-> "none", oneway_conflict |-> FALSE,
     id |-> id]

WarnRelation(id) ==
    [members |-> <<Member("from", "way", FromWay), Member("to", "way", ToWay),
                   Member("via", "node", ViaNode)>>,
     restriction |-> "no_uturn_typo",
     oneway_conflict |-> FALSE, id |-> id]

FewRelations(id) == {GoodRelation(id), EmptyRelation(id), WarnRelation(id)}

RECURSIVE Batches(_)
Batches(n) ==
    IF n = 0 THEN {<<>>}
    ELSE IF n = 1 THEN {<<>>} \cup {<<r>> : r \in Relations(1)}
    ELSE Batches(n - 1)
         \cup {Append(b, s) : b \in {x \in Batches(n - 1) : Len(x) = n - 1},
                              s \in FewRelations(n)}

Indexes == {{FromWay, ToWay, ViaNode}, {FromWay, ToWay}, {ViaNode}, {}}

RawResponses ==
    {[index |-> ix, relations |-> b] : b \in Batches(MaxRelations), ix \in Indexes}

-----------------------------------------------------------------------------
(* Cache keys: services/cache.py _make_key.  A coordinate is an exact       *)
(* value in units of 10^-5 degree; a rounded coordinate is in units of      *)
(* 10^-4 degree.                                                            *)

\* round(v, 4) truncating instead of rounding to nearest
Round4_truncating(v) == v \div 10

\* round(v, 4): to the nearest multiple of 10^-4, ties to even
Round4(v) ==
    LET q == v \div 10
        r == v % 10
    IN  IF r < 5 THEN q
        ELSE IF r > 5 THEN q + 1
        ELSE IF q % 2 = 0 THEN q ELSE q + 1

\* rounded = tuple(round(v, 4) for v in bbox); key_str serializes the tuple
key_str(bbox) == [i \in 1..4 |-> Round4(bbox[i])]

\* hashlib.sha256(key_str.encode()).hexdigest()[:32]: the digest prefix is
\* kept symbolic, a value that is a function of the hashed string alone
sha256_prefix(str) == [sha256_32 |-> str]

make_key(bbox) == sha256_prefix(key_str(bbox))

-----------------------------------------------------------------------------
(* CacheService over cachetools.TTLCache(maxsize, ttl).  An entry is        *)
(* [key, value, expires]; the sequence is in least-recently-used order.     *)

\* what get() returns for an absent or expired key
None == [none |-> TRUE]

Live(c, t) == SelectSeq(c, LAMBDA e : t < e.expires)

Keys(c) == {c[i].key : i \in 1..Len(c)}

Without(c, key) == SelectSeq(c, LAMBDA e : e.key # key)

EntryOf(c, key) == CHOOSE e \in {c[i] : i \in 1..Len(c)} : e.key = key

\* TTLCache.__contains__: present and not expired
Contains(c, key, t) == \E i \in 1..Len(c) : c[i].key = key /\ t < c[i].expires

\* a get that treats a result without restrictions as absent (`if not value`)
cache_get_falsy_is_miss(c, bbox, t) ==
    IF /\ Contains(c, make_key(bbox), t)
       /\ Len(EntryOf(c, make_key(bbox)).value.restrictions) > 0
    THEN EntryOf(c, make_key(bbox)).value
    ELSE None

\* CacheService.get(bbox): return self._cache.get(key)  -- None if not found
cache_get(c, bbox, t) ==
    IF Contains(c, make_key(bbox), t)
    THEN EntryOf(c, make_key(bbox)).value
    ELSE None

\* a hit that also renews the entry's lifetime (sliding expiry)
touch_sliding(c, bbox, t) ==
    LET key == make_key(bbox)
    IN  IF Contains(c, key, t)
        THEN Append(Without(c, key),
                    [EntryOf(c, key) EXCEPT !.expires = t + cache_ttl_seconds])
        ELSE c

\* a hit that leaves the recency order alone (insertion order eviction)
touch_none(c, bbox, t) == c

\* the entry table after get(bbox): a hit makes the entry most recently
\* used and leaves its expiry alone
touch(c, bbox, t) ==
    LET key == make_key(bbox)
    IN  IF Contains(c, key, t)
        THEN Append(Without(c, key), EntryOf(c, key))
        ELSE c

\* a set that never evicts
cache_set_unbounded(c, bbox, value, t) ==
    Append(Without(Live(c, t), make_key(bbox)),
           [expires |-> t + cache_ttl_seconds, key |-> make_key(bbox),
            value |-> value])

\* a set that keeps the value a live entry already holds (first write wins)
cache_set_keep_first(c, bbox, value, t) ==
    IF Contains(c, make_key(bbox), t)
    THEN c
    ELSE Append(Without(Live(c, t), make_key(bbox)),
                [expires |-> t + cache_ttl_seconds, key |-> make_key(bbox),
                 value |-> value])

\* CacheService.set(bbox, data): self._cache[key] = data.  TTLCache first drops
\* the expired entries, then, for a new key on a full table, pops the least
\* recently used entry, then stores the entry as most recently used with a
\* fresh expiry
cache_set(c, bbox, value, t) ==
    LET key   == make_key(bbox)
        live  == Live(c, t)
        room  == IF key \notin Keys(live) /\ Len(live) + 1 > cache_max_size
                 THEN Tail(live) ELSE live
    IN  Append(Without(room, key),
               [expires |-> t + cache_ttl_seconds, key |-> key, value |-> value])

\* a clear that only drops what has expired
cache_clear_expired_only(c, t) == Live(c, t)

\* CacheService.clear()
cache_clear(c, t) == <<>>

-----------------------------------------------------------------------------
(* Upstream client: services/overpass.py.  One attempt is answered by        *)
(* [kind, data, retry_after]: kind "ok" carries data; "http_429" may carry   *)
(* a retry hint (0 when absent).                                             *)

TransientKinds == {"timeout", "network", "http_5xx", "http_429"}

FatalKinds == {"http_400", "malformed"}

Answer(kind, data, hint) == [data |-> data, kind |-> kind, retry_after |-> hint]

\* every failure is retried
Retryable_everything(kind) == kind # "ok"

\* transient failures (timeout, 5xx, network error, 429) are retried; other
\* 4xx responses and unparsable responses are not
Retryable(kind) == kind \in TransientKinds

\* every transport failure reported as the generic network failure
FailureKind_generic(kind) ==
    CASE kind \in TransientKinds -> "UpstreamUnavailable"
      [] kind = "malformed" -> "MalformedUpstreamResponse"
      [] kind = "http_400"  -> "InvalidRequest"

\* the typed failure a failed attempt surfaces as
FailureKind(kind) ==
    CASE kind = "timeout"   -> "UpstreamTimeout"
      [] kind = "http_429"  -> "UpstreamRateLimited"
      [] kind = "network"   -> "UpstreamUnavailable"
      [] kind = "http_5xx"  -> "UpstreamUnavailable"
      [] kind = "malformed" -> "MalformedUpstreamResponse"
      [] kind = "http_400"  -> "InvalidRequest"

\* a backoff that shrinks with the attempt number
backoff_shrinking(attempt) == 2 ^ (max_retries - 1 - attempt)

\* await asyncio.sleep(2**attempt), attempt counted from 0
backoff(attempt) == 2 ^ attempt

\* a rate-limit response is waited out for the longer of the computed
\* backoff and the server's hint
retry_delay(attempt, answer) ==
    IF answer.kind = "http_429" /\ answer.retry_after > backoff(attempt)
    THEN answer.retry_after
    ELSE backoff(attempt)

NoData == [index |-> {}, relations |-> <<>>, none |-> TRUE]

NoClient ==
    [status |-> "off", attempt |-> 0, delays |-> <<>>, result |-> NoData,
     error |-> "none"]

\* the call as fetch_restrictions(bbox) starts it
NewClient ==
    [status |-> "running", attempt |-> 0, delays |-> <<>>, result |-> NoData,
     error |-> "none"]

\* a loop that never gives up on a transient failure
fetch_iteration_unbounded(c, answer) ==
    IF answer.kind = "ok"
    THEN [c EXCEPT !.status = "returned", !.result = answer.data]
    ELSE IF Retryable(answer.kind)
    THEN [c EXCEPT !.attempt = c.attempt + 1,
                   !.delays = Append(c.delays, retry_delay(c.attempt, answer))]
    ELSE [c EXCEPT !.status = "raised", !.error = FailureKind(answer.kind)]

\* one iteration of `for attempt in range(max_retries)`: the request, and on
\* a transient failure that is not the last attempt, the sleep before the
\* next one
fetch_iteration(c, answer) ==
    IF answer.kind = "ok"
    THEN [c EXCEPT !.status = "returned", !.result = answer.data]
    ELSE IF Retryable(answer.kind) /\ c.attempt + 1 < max_retries
    THEN [c EXCEPT !.attempt = c.attempt + 1,
                   !.delays = Append(c.delays, retry_delay(c.attempt, answer))]
    ELSE [c EXCEPT !.status = "raised", !.error = FailureKind(answer.kind)]

-----------------------------------------------------------------------------
(* Inputs of the cache: bounding boxes (minLon, minLat, maxLon, maxLat) and  *)
(* response payloads                                                        *)

BoxA == <<4667530, 2471360, 4668530, 2472360>>

\* BoxA panned by 2 * 10^-5 degree: the same rounded coordinates
BoxANear == <<4667532, 2471362, 4668532, 2472362>>

BoxB == <<4670000, 2471360, 4671000, 2472360>>

BoxC == <<3950000, 2140000, 3951000, 2141000>>

Boxes == {BoxA, BoxANear, BoxB, BoxC}

\* what the routes cache for a bounding box: the validated restrictions
Payload(data) == [restrictions |-> validate(data)]

FullIndex == {FromWay, ToWay, ViaNode}

UpstreamData ==
    {[index |-> {}, relations |-> <<>>],
     [index |-> FullIndex, relations |-> <<GoodRelation(1), EmptyRelation(2)>>]}

Payloads == {Payload(d) : d \in UpstreamData}

-----------------------------------------------------------------------------
(* Frontend: App state, useRestrictions, FilterPanel.  ui is                 *)
(* [restrictions, meta, filters].  null is the JavaScript null of an        *)
(* object-typed value; the null of a string-typed value (restriction_type,  *)
(* restrictionType) is written "none", as in the relations.                 *)

null == [null |-> TRUE]

NoType == "none"

\* useState<FilterState>({showOk: true, showWarnings: true, showErrors: true,
\* restrictionType: null})
DefaultFilters ==
    [showOk |-> TRUE, showWarnings |-> TRUE, showErrors |-> TRUE,
     restrictionType |-> NoType]

\* the null of a string-typed message (error, searchError, saError)
NoError == NoType

\* the JavaScript null of an array-typed value (saIssues)
NoList == [nolist |-> TRUE]

\* the JavaScript null of a bounding box (bbox, debouncedBbox)
NoBbox == <<>>

\* App and its hooks after the first render.  useRestrictions: restrictions
\* [], meta null, loading false, error null; bbox and debouncedBbox null,
\* no debounce timer armed, no request in flight (inflight holds [n, bbox] of
\* each pending
\* ApiService.getRestrictions, started counts them, heldFrom is the n of the
\* request whose outcome the hook holds).  App: highlightedId null (0),
\* saIssues and saIssuesMeta null, saLoading false, saError null, saPending
\* the getSAIssues calls in flight ([n, status] each, saStarted counts them).  SearchBox: searchValue '', searchError
\* null.  MarkerCluster: markersRef an empty Map, shown the list the sync
\* effect last ran with.
NewUi ==
    [restrictions |-> <<>>, bbox |-> NoBbox, error |-> NoError,
     meta |-> null, filters |-> DefaultFilters,
     loading |-> FALSE, debouncedBbox |-> NoBbox, timer |-> FALSE,
     inflight |-> {}, started |-> 0, heldFrom |-> 0,
     highlightedId |-> 0,
     saIssues |-> NoList, saIssuesMeta |-> null, saLoading |-> FALSE,
     saError |-> NoError, saPending |-> {}, saStarted |-> 0,
     searchValue |-> <<>>, searchError |-> NoError,
     markers |-> <<>>, shown |-> <<>>]

\* the status checkboxes a restriction of this status is shown under
StatusShown(filters, status) ==
    CASE status = "ok"      -> filters.showOk
      [] status = "warning" -> filters.showWarnings
      [] status = "error"   -> filters.showErrors

\* counts taken over what the status checkboxes leave visible
filteredCounts_visibleOnly(filters, restrictions) ==
    LET filteredRestrictions ==
            SelectSeq(restrictions,
                LAMBDA r : /\ StatusShown(filters, r.status)
                           /\ \/ filters.restrictionType = NoType
                              \/ r.restriction_type = filters.restrictionType)
    IN  [total    |-> Len(filteredRestrictions),
         errors   |-> Len(SelectSeq(filteredRestrictions,
                                    LAMBDA r : r.status = "error")),
         warnings |-> Len(SelectSeq(filteredRestrictions,
                                    LAMBDA r : r.status = "warning")),
         ok       |-> Len(SelectSeq(filteredRestrictions, LAMBDA r : r.status = "ok"))]

\* FilterPanel: filteredRestrictions is the list narrowed by the type
\* filter when one is chosen; filteredCounts counts it by status
filteredCounts(filters, restrictions) ==
    LET filteredRestrictions ==
            IF filters.restrictionType # NoType
            THEN SelectSeq(restrictions,
                     LAMBDA r : r.restriction_type = filters.restrictionType)
            ELSE restrictions
    IN  [total    |-> Len(filteredRestrictions),
         errors   |-> Len(SelectSeq(filteredRestrictions,
                                    LAMBDA r : r.status = "error")),
         warnings |-> Len(SelectSeq(filteredRestrictions,
                                    LAMBDA r : r.status = "warning")),
         ok       |-> Len(SelectSeq(filteredRestrictions, LAMBDA r : r.status = "ok"))]

UiIdle == ui = NewUi

-----------------------------------------------------------------------------
(* The cache service driven operation by operation *)

EngineIdle ==
    /\ raw = [index |-> {}, relations |-> <<>>]
    /\ validated = <<>>
    /\ engineDone = TRUE

KeyIdle ==
    /\ boxes = <<>>
    /\ keys = <<>>

FetchIdle ==
    /\ client = NoClient
    /\ calls = <<>>

ApiIdle ==
    /\ req = <<>>
    /\ lastDone = [op |-> "none"]

NoOp == [op |-> "none"]

CacheIdle ==
    /\ cache = <<>>
    /\ now = 0
    /\ lastOp = NoOp
    /\ insertedAt = [k \in {} |-> 0]
    /\ readSince = {}
    /\ useOrder = <<>>

KeysOfBoxes == {make_key(b) : b \in Boxes}

InitCache ==
    /\ cache = <<>>
    /\ now = 0
    /\ lastOp = NoOp
    /\ insertedAt = [k \in KeysOfBoxes |-> -1]
    /\ readSince = {}
    /\ useOrder = <<>>
    /\ EngineIdle
    /\ UiIdle
    /\ KeyIdle
    /\ FetchIdle
    /\ ApiIdle

RemoveKey(order, key) == SelectSeq(order, LAMBDA k : k # key)

\* insertedAt after a clear: -2 for the keys it dropped while live
AfterClear(c, t) ==
    [k \in DOMAIN insertedAt |-> IF k \in Keys(Live(c, t)) THEN -2 ELSE -1]

\* get(bbox); the history notes what the operation before it was and how
\* long ago the key was set
CacheGet(bbox) ==
    LET key == make_key(bbox)
        res == cache_get(cache, bbox, now)
    IN  /\ cache' = touch(cache, bbox, now)
        /\ lastOp' = [key |-> key, result |-> res, op |-> "get",
                      afterSet |-> lastOp.op = "set" /\ lastOp.key = key,
                      setValue |-> IF lastOp.op = "set" /\ lastOp.key = key
                                   THEN lastOp.value ELSE None,
                      age |-> IF insertedAt[key] < 0 THEN -1
                              ELSE now - insertedAt[key],
                      readBefore |-> key \in readSince]
        /\ readSince' = IF res # None THEN readSince \cup {key} ELSE readSince
        /\ useOrder' = IF res # None THEN Append(RemoveKey(useOrder, key), key)
                       ELSE useOrder
        /\ UNCHANGED <<now, insertedAt, engineVars, uiVars, keyVars, fetchVars, apiVars>>

CacheSet(bbox, value) ==
    LET key == make_key(bbox)
    IN  /\ cache' = cache_set(cache, bbox, value, now)
        /\ lastOp' = [key |-> key, value |-> value, op |-> "set"]
        /\ insertedAt' = [insertedAt EXCEPT ![key] = now]
        /\ readSince' = readSince \ {key}
        /\ useOrder' = Append(RemoveKey(useOrder, key), key)
        /\ UNCHANGED <<now, engineVars, uiVars, keyVars, fetchVars, apiVars>>

CacheClear ==
    /\ cache' = cache_clear(cache, now)
    /\ lastOp' = [op |-> "clear"]
    /\ insertedAt' = AfterClear(cache, now)
    /\ readSince' = {}
    /\ useOrder' = <<>>
    /\ UNCHANGED <<now, engineVars, uiVars, keyVars, fetchVars, apiVars>>

Tick ==
    /\ now < MaxClock
    /\ now' = now + 1
    /\ lastOp' = [op |-> "tick"]
    /\ lastDone' = [op |-> "none"]
    /\ UNCHANGED <<cache, insertedAt, readSince, useOrder, req,
                   engineVars, uiVars, keyVars, fetchVars>>

NextCache ==
    \/ \E b \in Boxes : CacheGet(b)
    \/ \E b \in Boxes, v \in Payloads : CacheSet(b, v)
    \/ CacheClear
    \/ Tick

SpecCache == InitCache /\ [][NextCache]_vars

-----------------------------------------------------------------------------
(* C3: a get(k) issued immediately after set(k, v) returns v, a hit, also    *)
(* when v is a result without restrictions: the hit is not the miss value.   *)
C3_GetAfterSet ==
    (lastOp.op = "get" /\ lastOp.afterSet)
        => (lastOp.result = lastOp.setValue /\ lastOp.result # None)

\* the value just set and read back is a result with zero restrictions
C3_Witness ==
    /\ lastOp.op = "get"
    /\ lastOp.afterSet
    /\ lastOp.setValue # None
    /\ Len(lastOp.setValue.restrictions) = 0
    /\ lastOp.result = lastOp.setValue

(* C4: a get(k) issued once cache_ttl_seconds have elapsed since k was last  *)
(* set returns the miss value, however often k was read in between.          *)
C4_ExpiresRegardlessOfReads ==
    (lastOp.op = "get" /\ lastOp.age >= cache_ttl_seconds)
        => lastOp.result = None

\* a miss by expiry on a key that had been read with a hit since it was set
C4_Witness ==
    /\ lastOp.op = "get"
    /\ lastOp.age >= cache_ttl_seconds
    /\ lastOp.readBefore
    /\ lastOp.result = None

(* C7: the entry table never holds more than cache_max_size entries, and a   *)
(* set of a new key on a table full of live entries removes exactly the      *)
(* least recently used one (the live key whose latest set or hit is oldest); *)
(* a set on a table that is not full removes no live entry.                  *)
LiveOrder == SelectSeq(useOrder, LAMBDA k : k \in Keys(Live(cache, now)))

C7_SetStep ==
    LET live == Keys(Live(cache, now))
        removed == live \ Keys(cache')
    IN  (lastOp'.op = "set" /\ lastOp'.key \notin live)
            => IF Cardinality(live) >= cache_max_size
               THEN removed = {LiveOrder[1]}
               ELSE removed = {}

C7_BoundedLRU ==
    /\ [](Len(cache) <= cache_max_size)
    /\ [][C7_SetStep]_vars

\* a key set later than a key still cached, still within its lifetime, is
\* gone from a full table: it was evicted as the least recently used
C7_Witness ==
    /\ Len(cache) = cache_max_size
    /\ \E k \in DOMAIN insertedAt :
          /\ insertedAt[k] >= 0
          /\ now < insertedAt[k] + cache_ttl_seconds
          /\ k \notin Keys(cache)
          /\ \E k2 \in Keys(cache) :
                insertedAt[k2] >= 0 /\ insertedAt[k2] < insertedAt[k]

-----------------------------------------------------------------------------
(* Key derivation on pairs of bounding boxes *)

\* coordinates around the base box's; a value ending in 5 at the fifth
\* decimal is left out: such a decimal is in general no double, and a double
\* next to it lies strictly on one side of the tie
CoordsNear(v) == {v + d : d \in {x \in 0..CoordSpread : x % 10 # 5}}

KeyBoxes ==
    {<<lon, lat, BoxA[3], BoxA[4]>> :
        lon \in CoordsNear(BoxA[1]), lat \in {BoxA[2], BoxA[2] + 4, BoxA[2] + 6}}

InitKey ==
    /\ boxes \in KeyBoxes \X KeyBoxes
    /\ keys = <<>>
    /\ EngineIdle
    /\ UiIdle
    /\ CacheIdle
    /\ FetchIdle
    /\ ApiIdle

ComputeKeys ==
    /\ keys = <<>>
    /\ keys' = <<make_key(boxes[1]), make_key(boxes[2])>>
    /\ UNCHANGED <<boxes, engineVars, uiVars, cacheVars, cacheHist, fetchVars, apiVars>>

NextKey == ComputeKeys

SpecKey == InitKey /\ [][NextKey]_vars

\* the two boxes agree in every digit up to the 4th decimal place
SameTo4thDecimal(b1, b2) == \A i \in 1..4 : b1[i] \div 10 = b2[i] \div 10

\* the multiple of 10^-4 degree nearest to v (v is no tie)
Nearest4(v) ==
    CHOOSE q \in (v \div 10)..(v \div 10 + 1) :
        IF 10 * q >= v THEN 2 * (10 * q - v) < 10 ELSE 2 * (v - 10 * q) < 10

SameNearest4(b1, b2) == \A i \in 1..4 : Nearest4(b1[i]) = Nearest4(b2[i])

(* C6, as claimed: two boxes have the same key iff they differ only beyond   *)
(* the 4th decimal place.                                                    *)
C6_Original ==
    keys # <<>> => (SameTo4thDecimal(boxes[1], boxes[2]) <=> keys[1] = keys[2])

(* C6, amended: two boxes have the same key iff each of the four             *)
(* coordinates of one has the same nearest 4-decimal value as the matching   *)
(* coordinate of the other.                                                  *)
C6_SameKeyIffSameRounding ==
    keys # <<>> => (SameNearest4(boxes[1], boxes[2]) <=> keys[1] = keys[2])

\* two different boxes that differ at the 4th decimal place and share a key
C6_Witness ==
    /\ keys # <<>>
    /\ boxes[1] # boxes[2]
    /\ ~SameTo4thDecimal(boxes[1], boxes[2])
    /\ keys[1] = keys[2]

-----------------------------------------------------------------------------
(* One call of the upstream client, attempt by attempt *)

Answers ==
    {Answer("ok", d, 0) : d \in UpstreamData}
    \cup {Answer(k, NoData, 0) : k \in TransientKinds \cup FatalKinds}
    \cup {Answer("http_429", NoData, RetryAfterHint)}

InitFetch ==
    /\ client = NewClient
    /\ calls = <<>>
    /\ EngineIdle
    /\ UiIdle
    /\ CacheIdle
    /\ KeyIdle
    /\ ApiIdle

FetchAttempt(answer) ==
    /\ client.status = "running"
    /\ client' = fetch_iteration(client, answer)
    /\ calls' = Append(calls, answer)
    /\ UNCHANGED <<engineVars, uiVars, cacheVars, cacheHist, keyVars, apiVars>>

NextFetch == \E a \in Answers : FetchAttempt(a)

SpecFetch == InitFetch /\ [][NextFetch]_vars

KindsOf(cs) == {cs[i].kind : i \in 1..Len(cs)}

Failures(cs) == SelectSeq(cs, LAMBDA a : a.kind # "ok")

(* C8: while the upstream has answered k < max_retries attempts, all with a  *)
(* timeout, the call is still running; and when k timeouts are followed by   *)
(* a success, the call returns that success's data after k + 1 <=            *)
(* max_retries attempts, having slept k times, each delay twice the one      *)
(* before (so never shorter).                                                *)
C8_TimeoutsThenSuccess ==
    (KindsOf(Failures(calls)) \subseteq {"timeout"}) =>
        /\ (Len(calls) < max_retries /\ KindsOf(calls) \subseteq {"timeout"})
              => client.status = "running"
        /\ (Len(calls) > 0 /\ calls[Len(calls)].kind = "ok") =>
              /\ client.status = "returned"
              /\ client.result = calls[Len(calls)].data
              /\ Len(calls) <= max_retries
              /\ Len(client.delays) = Len(calls) - 1
              /\ \A i \in 1..(Len(client.delays) - 1) :
                    /\ client.delays[i + 1] >= client.delays[i]
                    /\ client.delays[i + 1] = 2 * client.delays[i]

\* two timeouts, then a success on the last allowed attempt
C8_Witness ==
    /\ Len(calls) = max_retries
    /\ \A i \in 1..(Len(calls) - 1) : calls[i].kind = "timeout"
    /\ calls[Len(calls)].kind = "ok"
    /\ client.status = "returned"
    /\ Len(client.delays) >= 2

(* C9: when the first attempt is answered by a non-retryable failure (a 400, *)
(* or a response that cannot be parsed), the call has failed with exactly    *)
(* one attempt made and no backoff delay slept.                              *)
C9_FatalFailsAtOnce ==
    (Len(calls) >= 1 /\ calls[1].kind \in FatalKinds) =>
        /\ Len(calls) = 1
        /\ client.status = "raised"
        /\ client.delays = <<>>
        /\ client.attempt = 0

\* a call that a 400 ended
C9_Witness ==
    /\ Len(calls) = 1
    /\ calls[1].kind = "http_400"
    /\ client.status = "raised"

-----------------------------------------------------------------------------
(* API routes: api/routes.py.  get_restrictions suspends only while it      *)
(* awaits the upstream client, so its handler is two steps: up to the       *)
(* await, and from the client's return to the response.                     *)

\* the in-flight requests the model follows
Requests == {"r1", "r2"}

\* the boxes requested: the same viewport twice, a near-duplicate of it, and
\* another one
FlowBoxes == {BoxA, BoxANear, BoxB}

RECURSIVE FetchRun(_, _)
\* fetch_restrictions(bbox) against the answers the upstream gives in turn
FetchRun(c, script) ==
    IF script = <<>> \/ c.status # "running" THEN c
    ELSE FetchRun(fetch_iteration(c, Head(script)), Tail(script))

RECURSIVE Consumed(_, _)
\* the answers of script the call got to see
Consumed(c, script) ==
    IF script = <<>> \/ c.status # "running" THEN <<>>
    ELSE <<Head(script)>> \o Consumed(fetch_iteration(c, Head(script)), Tail(script))

\* a handler that goes upstream whatever the cache returned
route_after_check_ignoring_cache(cached) == "fetch"

\* cached = cache_service.get(bbox): a hit is returned, a miss goes upstream
route_after_check(cached) == IF cached # None THEN "respond" ELSE "fetch"

\* the failure the route reports: the client's kind, unchanged
api_error(kind) == kind

\* "Apply filters (status, type)": the restrictions of a result that pass
\* the optional status and type parameters of the request
apply_filters(payload, status, type) ==
    [restrictions |->
        SelectSeq(payload.restrictions,
            LAMBDA r : /\ (status = NoType \/ r.status = status)
                       /\ (type = NoType \/ r.restriction_type = type))]

\* a handler that caches an empty result when its upstream call did not
\* return data
route_store_partial(c, bbox, fetched, status, type, t) ==
    IF fetched.status = "returned"
    THEN cache_set(c, bbox, Payload(fetched.result), t)
    ELSE cache_set(c, bbox, Payload(NoData), t)

\* a handler that filters before it caches
route_store_filtered(c, bbox, fetched, status, type, t) ==
    IF fetched.status = "returned"
    THEN cache_set(c, bbox, apply_filters(Payload(fetched.result), status, type), t)
    ELSE c

\* the entry table when the handler resumes from the upstream call: the
\* validated result is cached, as validated and under the box's key, only
\* when the call returned data; when it raised or was cancelled the handler
\* unwinds before cache_service.set.  The request's filters play no part.
route_store(c, bbox, fetched, status, type, t) ==
    IF fetched.status = "returned"
    THEN cache_set(c, bbox, Payload(fetched.result), t)
    ELSE c

\* the call as a cancellation at its await leaves it
CancelledClient == [NewClient EXCEPT !.status = "cancelled"]

IdleRequest == [pc |-> "idle"]

Uniform(kind, n) == [i \in 1..n |-> Answer(kind, NoData, 0)]

\* what the upstream answers to the attempts of one call
FlowScripts ==
    {<<Answer("ok", d, 0)>> : d \in UpstreamData}
    \cup {<<Answer("timeout", NoData, 0), Answer("ok", d, 0)>> : d \in UpstreamData}
    \cup {Uniform(k, max_retries + 1) : k \in TransientKinds}
    \cup {Uniform(k, 1) : k \in FatalKinds}
    \cup {<<Answer("network", NoData, 0), Answer("http_429", NoData, RetryAfterHint),
            Answer("timeout", NoData, 0), Answer("timeout", NoData, 0)>>}

Init ==
    /\ req = [r \in Requests |-> IdleRequest]
    /\ lastDone = [op |-> "none"]
    /\ cache = <<>>
    /\ now = 0
    /\ lastOp = NoOp
    /\ insertedAt = [k \in KeysOfBoxes |-> -1]
    /\ readSince = {}
    /\ useOrder = <<>>
    /\ EngineIdle
    /\ UiIdle
    /\ KeyIdle
    /\ FetchIdle

\* GET /api/restrictions?bbox=...&status=...&type=...: check the cache;
\* return a hit, filtered, or start the upstream call
GetRestrictionsFiltered(r, bbox, status, type) ==
    LET cached == cache_get(cache, bbox, now)
    IN  /\ req[r].pc = "idle"
        /\ cache' = touch(cache, bbox, now)
        /\ IF route_after_check(cached) = "respond"
           THEN /\ lastDone' = [calls |-> <<>>, type |-> type,
                                status |-> status, bbox |-> bbox,
                                delays |-> <<>>, error |-> "none",
                                op |-> "get_restrictions",
                                response |-> apply_filters(cached, status, type),
                                storedAfter |-> None, replaced |-> None,
                                steps |-> <<"cache_get", "filter", "return">>]
                /\ req' = req
           ELSE /\ req' = [req EXCEPT ![r] = [type |-> type, status |-> status,
                                              bbox |-> bbox, pc |-> "fetching"]]
                /\ lastDone' = [bbox |-> bbox, op |-> "upstream_started",
                                afterClear |-> insertedAt[make_key(bbox)] = -2]
        /\ UNCHANGED <<now, lastOp, insertedAt, readSince, useOrder,
                       engineVars, uiVars, keyVars, fetchVars>>

\* the request without filters, as the frontend's hook makes it
GetRestrictions(r, bbox) == GetRestrictionsFiltered(r, bbox, NoType, NoType)

\* the upstream call of r returns or raises: on data, validate, cache the
\* result under the box's key, filter and return it; on a failure, report
\* its kind
FetchCompletes(r, script) ==
    LET c    == FetchRun(NewClient, script)
        bbox == req[r].bbox
        done == [calls |-> Consumed(NewClient, script), type |-> req[r].type,
                 status |-> req[r].status, bbox |-> bbox,
                 delays |-> c.delays, error |-> "none",
                 op |-> "get_restrictions", response |-> None, storedAfter |-> None,
                 replaced |-> None,
                 steps |-> <<"cache_get", "fetch">>]
    IN  /\ req[r].pc = "fetching"
        /\ c.status # "running"
        /\ cache' = route_store(cache, bbox, c, req[r].status, req[r].type, now)
        /\ IF c.status = "returned"
           THEN /\ insertedAt' = [insertedAt EXCEPT ![make_key(bbox)] = now]
                /\ lastDone' =
                      [done EXCEPT
                         !.response = apply_filters(Payload(c.result),
                                                    req[r].status, req[r].type),
                         !.storedAfter = cache_get(cache', bbox, now),
                         !.replaced = cache_get(cache, bbox, now),
                         !.steps = <<"cache_get", "fetch", "validate",
                                     "cache_set", "filter", "return">>]
           ELSE /\ lastDone' = [done EXCEPT !.error = api_error(c.error)]
                /\ UNCHANGED insertedAt
        /\ req' = [req EXCEPT ![r] = IdleRequest]
        /\ UNCHANGED <<now, lastOp, readSince, useOrder,
                       engineVars, uiVars, keyVars, fetchVars>>

\* the caller's timeout or cancellation hits r while it awaits the upstream
\* call: the handler unwinds from the await, no response is built
Abort(r) ==
    /\ req[r].pc = "fetching"
    /\ cache' = route_store(cache, req[r].bbox, CancelledClient,
                            req[r].status, req[r].type, now)
    /\ lastDone' = [bbox |-> req[r].bbox, op |-> "aborted"]
    /\ req' = [req EXCEPT ![r] = IdleRequest]
    /\ UNCHANGED <<now, lastOp, insertedAt, readSince, useOrder,
                   engineVars, uiVars, keyVars, fetchVars>>

\* POST /api/cache/clear
ClearCache ==
    /\ cache' = cache_clear(cache, now)
    /\ insertedAt' = AfterClear(cache, now)
    /\ lastDone' = [op |-> "none"]
    /\ UNCHANGED <<now, lastOp, readSince, useOrder, req,
                   engineVars, uiVars, keyVars, fetchVars>>

Next ==
    \/ \E r \in Requests, b \in FlowBoxes : GetRestrictions(r, b)
    \/ \E r \in Requests, sc \in FlowScripts : FetchCompletes(r, sc)
    \/ \E r \in Requests : Abort(r)
    \/ ClearCache
    \/ Tick

Spec == Init /\ [][Next]_vars

Returned == lastDone.op = "get_restrictions"

(* C2: get_restrictions consults the cache first.  It starts an upstream     *)
(* call only when the cache returned a miss for the box; a response built    *)
(* without upstream call is the cached value; a response built from an       *)
(* upstream call is the validation of the data fetched, was written to the   *)
(* cache under the box's key before it was returned, and the steps ran in    *)
(* the order cache check, fetch, validate, cache write, return.              *)
C2_Response ==
    (Returned /\ lastDone.error = "none") =>
        IF lastDone.calls = <<>>
        THEN /\ lastDone.steps = <<"cache_get", "filter", "return">>
             /\ lastDone.response # None
        ELSE /\ lastDone.steps =
                    <<"cache_get", "fetch", "validate", "cache_set", "filter",
                      "return">>
             /\ lastDone.calls[Len(lastDone.calls)].kind = "ok"
             /\ lastDone.response =
                    [restrictions |->
                        validate(lastDone.calls[Len(lastDone.calls)].data)]
             /\ lastDone.storedAfter = lastDone.response

C2_Step ==
    /\ \A r \in Requests :
          (req[r].pc = "idle" /\ req'[r].pc = "fetching")
              => cache_get(cache, req'[r].bbox, now) = None
    /\ (lastDone'.op = "get_restrictions" /\ lastDone'.calls = <<>>)
          => lastDone'.response = cache_get(cache, lastDone'.bbox, now)

C2_CacheFirst == [](C2_Response) /\ [][C2_Step]_vars

\* a request answered from the cache with a result another request stored
C2_Witness ==
    /\ Returned
    /\ lastDone.calls = <<>>
    /\ lastDone.response # None
    /\ Len(lastDone.response.restrictions) > 0

(* C5: for every key not set since the latest clear, get is a miss; so no    *)
(* get_restrictions is answered from the cache for a box whose key was not   *)
(* set since the latest clear: it goes upstream.                             *)
C5_State ==
    \A b \in FlowBoxes :
        insertedAt[make_key(b)] < 0 => cache_get(cache, b, now) = None

C5_Step ==
    /\ (lastDone'.op = "get_restrictions" /\ lastDone'.calls = <<>>)
          => insertedAt[make_key(lastDone'.bbox)] >= 0
    /\ lastDone'.op = "upstream_started"
          => \E r \in Requests :
                /\ req'[r].pc = "fetching"
                /\ req'[r].bbox = lastDone'.bbox

C5_ClearForcesFetch == [](C5_State) /\ [][C5_Step]_vars

\* a request for a box that was cached when the cache was cleared, and not
\* set since, has started its upstream call
C5_Witness ==
    /\ lastDone.op = "upstream_started"
    /\ lastDone.afterClear

(* C10: no call makes more than max_retries attempts, and when every attempt *)
(* of a request's upstream call fails with the same transient failure, the   *)
(* call stops after max_retries attempts and the request fails with          *)
(* UpstreamTimeout for timeouts, UpstreamRateLimited for 429 responses,      *)
(* UpstreamUnavailable for network failures, at the API layer.               *)
C10_TypedFailure ==
    Returned =>
        /\ Len(lastDone.calls) <= max_retries
        /\ \A k \in {"timeout", "http_429", "network"} :
              (lastDone.calls # <<>> /\ KindsOf(lastDone.calls) = {k}) =>
                  /\ Len(lastDone.calls) = max_retries
                  /\ lastDone.response = None
                  /\ lastDone.error =
                        CASE k = "timeout"  -> "UpstreamTimeout"
                          [] k = "http_429" -> "UpstreamRateLimited"
                          [] k = "network"  -> "UpstreamUnavailable"

\* a request whose upstream call was rate-limited on every attempt
C10_Witness ==
    /\ Returned
    /\ Len(lastDone.calls) = max_retries
    /\ KindsOf(lastDone.calls) = {"http_429"}
    /\ lastDone.error = "UpstreamRateLimited"

(* C11: a request whose upstream call fails (retries exhausted or a failure  *)
(* that is not retried) or is cancelled while it awaits the call changes no  *)
(* entry of the cache: neither its cache check, a miss, nor the step in      *)
(* which it unwinds adds, changes or removes an entry.                       *)
C11_Step ==
    /\ lastDone'.op = "upstream_started" => cache' = cache
    /\ (lastDone'.op = "get_restrictions" /\ lastDone'.error # "none")
          => (cache' = cache /\ insertedAt' = insertedAt)
    /\ lastDone'.op = "aborted" => (cache' = cache /\ insertedAt' = insertedAt)

C11_FailureLeavesCache == [][C11_Step]_vars

\* a request was cancelled while the cache held an entry
C11_Witness ==
    /\ lastDone.op = "aborted"
    /\ Len(cache) > 0

\* a request failed after its retries while the cache held a live entry
C11_WitnessExhausted ==
    /\ Returned
    /\ lastDone.error = "UpstreamTimeout"
    /\ Len(Live(cache, now)) > 0

(* C12: with several requests in flight, every cache operation acts on the  *)
(* entry table as a whole.  The table holds at most one entry per key; an    *)
(* entry is in the table only because a set stored that value under that     *)
(* key; a response served from the cache is the value of the key's entry;    *)
(* and when a request stores its result, the key's entry holds that value    *)
(* afterwards, whatever an earlier request had stored under the key.         *)
SetBy(done) ==
    done.op = "get_restrictions" /\ done.error = "none" /\ done.calls # <<>>

C12_OneEntryPerKey ==
    \A i, j \in 1..Len(cache) : cache[i].key = cache[j].key => i = j

C12_Step ==
    /\ \A i \in 1..Len(cache') :
          \/ \E j \in 1..Len(cache) : cache'[i] = cache[j]
          \/ /\ SetBy(lastDone')
             /\ cache'[i].key = make_key(lastDone'.bbox)
             /\ cache'[i].value = lastDone'.response
    /\ (lastDone'.op = "get_restrictions" /\ lastDone'.calls = <<>>)
          => \E j \in 1..Len(cache) :
                /\ cache[j].key = make_key(lastDone'.bbox)
                /\ cache[j].value = lastDone'.response
    /\ SetBy(lastDone')
          => /\ cache_get(cache', lastDone'.bbox, now) = lastDone'.response
             /\ \A i \in 1..Len(cache') :
                   cache'[i].key = make_key(lastDone'.bbox)
                       => cache'[i].value = lastDone'.response

C12_AtomicLastWriteWins == [](C12_OneEntryPerKey) /\ [][C12_Step]_vars

\* two requests for the same key were in flight together and fetched
\* different data: the second to finish replaced the live entry of the first
C12_Witness ==
    /\ SetBy(lastDone)
    /\ lastDone.replaced # None
    /\ lastDone.replaced # lastDone.response
    /\ cache_get(cache, lastDone.bbox, now) = lastDone.response

-----------------------------------------------------------------------------
(* The engine as a state machine: one validation pass over one response *)

InitEngine ==
    /\ raw \in RawResponses
    /\ validated = <<>>
    /\ engineDone = FALSE
    /\ CacheIdle
    /\ KeyIdle
    /\ FetchIdle
    /\ ApiIdle
    /\ UiIdle

Validate ==
    /\ ~engineDone
    /\ validated' = validate(raw)
    /\ engineDone' = TRUE
    /\ UNCHANGED <<raw, cacheVars, cacheHist, keyVars, fetchVars, apiVars, uiVars>>

NextEngine == Validate

SpecEngine == InitEngine /\ [][NextEngine]_vars

-----------------------------------------------------------------------------
(* C1: every ValidatedRestriction the engine produced has status error iff  *)
(* its issues contain an issue of severity error, otherwise status warning  *)
(* iff they contain an issue of severity warning, otherwise status ok.      *)
C1_StatusFromIssues ==
    \A i \in 1..Len(validated) :
        LET r == validated[i]
            hasError == \E j \in 1..Len(r.issues) : r.issues[j].severity = "error"
            hasWarning == \E j \in 1..Len(r.issues) : r.issues[j].severity = "warning"
        IN  /\ (r.status = "error") <=> hasError
            /\ (r.status = "warning") <=> (~hasError /\ hasWarning)
            /\ (r.status = "ok") <=> (~hasError /\ ~hasWarning)

\* a produced restriction that carries both an error and a warning issue
C1_Witness ==
    /\ engineDone
    /\ \E i \in 1..Len(validated) :
          /\ \E j \in 1..Len(validated[i].issues) :
                validated[i].issues[j].severity = "error"
          /\ \E j \in 1..Len(validated[i].issues) :
                validated[i].issues[j].severity = "warning"
          /\ validated[i].status = "error"

-----------------------------------------------------------------------------
(* Reading the engine's output against its input *)

\* the positions of validated that report the i-th relation of the response
OutputsFor(i) ==
    {j \in 1..Len(validated) : validated[j].id = raw.relations[i].id}

\* the i-th relation of the response is a turn restriction, not an access one
InScope(i) == raw.relations[i].restriction \notin {"no_entry", "no_exit"}

RolesOf(rel) == {rel.members[k].role : k \in 1..Len(rel.members)}

WithCode(r, code) == {k \in 1..Len(r.issues) : r.issues[k].code = code}

(* C13: a relation from = way 1, to = way 2, via = node 3 tagged             *)
(* restriction=no_left_turn, all three present in the element index and      *)
(* without oneway conflict, is reported with no issue and status ok.         *)
C13_WellFormedIsOk ==
    engineDone =>
        \A i \in 1..Len(raw.relations) :
            (/\ raw.relations[i].members =
                    <<Member("from", "way", 1), Member("to", "way", 2),
                      Member("via", "node", 3)>>
             /\ raw.relations[i].restriction = "no_left_turn"
             /\ {1, 2, 3} \subseteq raw.index
             /\ ~raw.relations[i].oneway_conflict)
            => /\ OutputsFor(i) # {}
               /\ \A j \in OutputsFor(i) :
                     validated[j].issues = <<>> /\ validated[j].status = "ok"

\* such a relation was validated, next to a malformed one
C13_Witness ==
    /\ engineDone
    /\ Len(validated) = 2
    /\ raw.relations[1] = GoodRelation(1)
    /\ raw.index = {1, 2, 3}
    /\ validated[1].issues = <<>>
    /\ validated[1].status = "ok"
    /\ validated[2].status = "error"

(* C14: a validated relation without a member of role "via" carries exactly  *)
(* one issue with code missing_via_member; that issue has severity error     *)
(* and the relation's status is error.                                       *)
C14_MissingVia ==
    engineDone =>
        \A i \in 1..Len(raw.relations) :
            (InScope(i) /\ "via" \notin RolesOf(raw.relations[i]))
            => /\ OutputsFor(i) # {}
               /\ \A j \in OutputsFor(i) :
                     /\ Cardinality(WithCode(validated[j], "missing_via_member")) = 1
                     /\ \A k \in WithCode(validated[j], "missing_via_member") :
                           validated[j].issues[k].severity = "error"
                     /\ validated[j].status = "error"

\* a relation with from and to but no via, whose only issue is the missing via
C14_Witness ==
    /\ engineDone
    /\ Len(validated) >= 1
    /\ RolesOf(raw.relations[1]) = {"from", "to"}
    /\ validated[1].id = raw.relations[1].id
    /\ validated[1].issues = <<Issue("missing_via_member", "error")>>
    /\ validated[1].status = "error"

(* C15: a validated relation whose "via" member points to a ref that is not  *)
(* in the element index carries an issue with code nonexistent_member, every *)
(* such issue has severity warning, and when all of its issues have that     *)
(* code its status is warning.                                               *)
C15_NonexistentVia ==
    engineDone =>
        \A i \in 1..Len(raw.relations) :
            (/\ InScope(i)
             /\ \E k \in 1..Len(raw.relations[i].members) :
                   /\ raw.relations[i].members[k].role = "via"
                   /\ raw.relations[i].members[k].ref \notin raw.index)
            => /\ OutputsFor(i) # {}
               /\ \A j \in OutputsFor(i) :
                     /\ WithCode(validated[j], "nonexistent_member") # {}
                     /\ \A k \in WithCode(validated[j], "nonexistent_member") :
                           validated[j].issues[k].severity = "warning"
                     /\ (WithCode(validated[j], "nonexistent_member")
                            = 1..Len(validated[j].issues))
                        => validated[j].status = "warning"

\* from and to resolve, the via node does not: one warning, status warning
C15_Witness ==
    /\ engineDone
    /\ Len(validated) >= 1
    /\ raw.index = {1, 2}
    /\ raw.relations[1].members =
           <<Member("from", "way", 1), Member("to", "way", 2),
             Member("via", "node", 3)>>
    /\ validated[1].issues = <<Issue("nonexistent_member", "warning")>>
    /\ validated[1].status = "warning"

(* C16: no restriction the engine returns has the type no_entry or no_exit,  *)
(* so none carries an unrecognized_restriction_type warning for such a type; *)
(* a relation of these types has no output at all, and the summary total     *)
(* counts the other relations of the response only.                          *)
C16_AccessExcluded ==
    engineDone =>
        /\ \A j \in 1..Len(validated) :
              validated[j].restriction_type \notin {"no_entry", "no_exit"}
        /\ \A i \in 1..Len(raw.relations) : ~InScope(i) => OutputsFor(i) = {}
        /\ Summary(validated).total =
              Cardinality({i \in 1..Len(raw.relations) : InScope(i)})
        /\ LET m == Summary(validated)
           IN  m.errors + m.warnings + m.ok = m.total

\* a response of a no_exit relation and a turn restriction: one output
C16_Witness ==
    /\ engineDone
    /\ Len(raw.relations) = 2
    /\ raw.relations[1].restriction = "no_exit"
    /\ Len(validated) = 1
    /\ validated[1].id = raw.relations[2].id
    /\ Summary(validated).total = 1

(* C17: for a validated relation without a member of role "from" ("to",      *)
(* "via") the issue list has no invalid_from_type (invalid_to_type,          *)
(* invalid_via_type) issue and has the missing_from_member                   *)
(* (missing_to_member, missing_via_member) issue; the relation is reported,  *)
(* the pass did not fail on it.                                              *)
TypeRuleOwners ==
    {<<"from", "invalid_from_type", "missing_from_member">>,
     <<"to", "invalid_to_type", "missing_to_member">>,
     <<"via", "invalid_via_type", "missing_via_member">>}

C17_TypeRulesSkipAbsent ==
    engineDone =>
        \A i \in 1..Len(raw.relations), t \in TypeRuleOwners :
            (InScope(i) /\ t[1] \notin RolesOf(raw.relations[i]))
            => /\ OutputsFor(i) # {}
               /\ \A j \in OutputsFor(i) :
                     /\ WithCode(validated[j], t[2]) = {}
                     /\ WithCode(validated[j], t[3]) # {}

\* a relation with only a from member, of the wrong type: the type rule fired
\* for from and stayed silent for the absent to and via
C17_Witness ==
    /\ engineDone
    /\ Len(validated) >= 1
    /\ raw.relations[1].members = <<Member("from", "node", 1)>>
    /\ validated[1].id = raw.relations[1].id
    /\ WithCode(validated[1], "invalid_from_type") # {}
    /\ WithCode(validated[1], "invalid_to_type") = {}
    /\ WithCode(validated[1], "invalid_via_type") = {}
    /\ WithCode(validated[1], "missing_to_member") # {}
    /\ WithCode(validated[1], "missing_via_member") # {}

(* C18: validate() returns one ValidatedRestriction per turn-restriction     *)
(* relation of the response, in the response's order and no other: a         *)
(* relation with an empty members list is reported with status error, a      *)
(* relation none of whose via members resolves is reported with location     *)
(* None.                                                                     *)
InScopePositions == {i \in 1..Len(raw.relations) : InScope(i)}

C18_OnePerRelation ==
    engineDone =>
        /\ Len(validated) = Cardinality(InScopePositions)
        /\ \A i \in InScopePositions :
              /\ Cardinality(OutputsFor(i)) = 1
              /\ \A j \in OutputsFor(i) :
                    /\ validated[j].members = raw.relations[i].members
                    /\ raw.relations[i].members = <<>>
                          => validated[j].status = "error"
                    /\ (\A k \in 1..Len(raw.relations[i].members) :
                           \/ raw.relations[i].members[k].role # "via"
                           \/ raw.relations[i].members[k].ref \notin raw.index)
                          => validated[j].location = 0
        /\ \A j1, j2 \in 1..Len(validated) :
              j1 < j2 => validated[j1].id < validated[j2].id

\* a batch of a well-formed relation and one without members: both reported,
\* the second with status error and no location
C18_Witness ==
    /\ engineDone
    /\ Len(raw.relations) = 2
    /\ Len(validated) = 2
    /\ validated[1].status = "ok"
    /\ validated[1].location # 0
    /\ validated[2].members = <<>>
    /\ validated[2].status = "error"
    /\ validated[2].location = 0

-----------------------------------------------------------------------------
(* The filter panel over the data the hook holds: responses arrive, the     *)
(* user toggles the status checkboxes and picks a type                      *)

StraightRelation(id) ==
    [members |-> <<Member("from", "way", FromWay), Member("to", "way", ToWay),
                   Member("via", "node", ViaNode)>>,
     restriction |-> "only_straight_on",
     oneway_conflict |-> TRUE, id |-> id]

\* the upstream data behind the responses the panel is shown
PanelData ==
    {[index |-> {}, relations |-> <<>>],
     [index |-> FullIndex, relations |-> <<GoodRelation(1), EmptyRelation(2)>>],
     [index |-> FullIndex, relations |-> <<GoodRelation(1), StraightRelation(2)>>],
     [index |-> {FromWay, ToWay}, relations |-> <<WarnRelation(1), GoodRelation(2)>>],
     [index |-> {}, relations |-> <<StraightRelation(1), EmptyRelation(2)>>]}

\* the select's options: "" (All types) and allTypes
TypeOptions == {""} \cup TURN_RESTRICTION_TYPES

InitPanel ==
    /\ ui = NewUi
    /\ EngineIdle
    /\ CacheIdle
    /\ KeyIdle
    /\ FetchIdle
    /\ ApiIdle

\* useRestrictions: setRestrictions(response.restrictions); setMeta(response.meta)
ResponseArrives(data) ==
    /\ ui' = [ui EXCEPT !.restrictions = validate(data),
                        !.meta = Summary(validate(data))]
    /\ UNCHANGED <<engineVars, cacheVars, cacheHist, keyVars, fetchVars, apiVars>>

\* useRestrictions, catch branch: setRestrictions([]); setMeta(null)
ResponseFails ==
    /\ ui' = [ui EXCEPT !.restrictions = <<>>, !.meta = null]
    /\ UNCHANGED <<engineVars, cacheVars, cacheHist, keyVars, fetchVars, apiVars>>

\* FilterPanel.handleCheckboxChange(key): {...filters, [key]: !filters[key]}
handleCheckboxChange(key) ==
    /\ ui' = [ui EXCEPT !.filters[key] = ~ui.filters[key]]
    /\ UNCHANGED <<engineVars, cacheVars, cacheHist, keyVars, fetchVars, apiVars>>

\* FilterPanel.handleTypeChange: restrictionType: e.target.value || null
handleTypeChange(value) ==
    /\ ui' = [ui EXCEPT !.filters.restrictionType =
                            IF value = "" THEN NoType ELSE value]
    /\ UNCHANGED <<engineVars, cacheVars, cacheHist, keyVars, fetchVars, apiVars>>

NextPanel ==
    \/ \E d \in PanelData : ResponseArrives(d)
    \/ ResponseFails
    \/ \E key \in {"showOk", "showWarnings", "showErrors"} : handleCheckboxChange(key)
    \/ \E v \in TypeOptions : handleTypeChange(v)

SpecPanel == InitPanel /\ [][NextPanel]_vars

(* C19: the response's summary has total = number of restrictions returned   *)
(* = errors + warnings + ok, each count the number of restrictions of that   *)
(* status; the panel's counts are the same counts taken over the             *)
(* restrictions of the chosen type (all of them when no type is chosen),     *)
(* add up the same way, and are the same for every setting of the three      *)
(* status checkboxes.                                                        *)
OfChosenType ==
    {i \in 1..Len(ui.restrictions) :
        \/ ui.filters.restrictionType = NoType
        \/ ui.restrictions[i].restriction_type = ui.filters.restrictionType}

HavingStatus(positions, st) ==
    Cardinality({i \in positions : ui.restrictions[i].status = st})

C19_CountsPartition ==
    LET fc  == filteredCounts(ui.filters, ui.restrictions)
        all == 1..Len(ui.restrictions)
    IN  /\ ui.meta # null =>
              /\ ui.meta.total = Len(ui.restrictions)
              /\ ui.meta.errors = HavingStatus(all, "error")
              /\ ui.meta.warnings = HavingStatus(all, "warning")
              /\ ui.meta.ok = HavingStatus(all, "ok")
              /\ ui.meta.total = ui.meta.errors + ui.meta.warnings + ui.meta.ok
        /\ fc.total = Cardinality(OfChosenType)
        /\ fc.errors = HavingStatus(OfChosenType, "error")
        /\ fc.warnings = HavingStatus(OfChosenType, "warning")
        /\ fc.ok = HavingStatus(OfChosenType, "ok")
        /\ fc.total = fc.errors + fc.warnings + fc.ok
        /\ \A a, b, c \in BOOLEAN :
              filteredCounts([ui.filters EXCEPT !.showOk = a, !.showWarnings = b,
                                                !.showErrors = c],
                             ui.restrictions) = fc

\* a type is chosen and the errors are unchecked; the panel counts the one
\* restriction of that type out of the two returned
C19_Witness ==
    /\ ui.meta # null
    /\ ui.meta.total = 2
    /\ ui.meta.errors = 1
    /\ ui.filters.restrictionType = "no_left_turn"
    /\ ~ui.filters.showOk
    /\ ~ui.filters.showErrors
    /\ filteredCounts(ui.filters, ui.restrictions).total = 1
    /\ filteredCounts(ui.filters, ui.restrictions).ok = 1

-----------------------------------------------------------------------------
(* GET /api/restriction/{relation_id} and ApiService.getRestrictionById:    *)
(* the single relation is queried upstream, validated and returned; the      *)
(* frontend turns a response that is not ok into a rejected promise.         *)

\* the relation ids asked for
RelationIds == {1, 2, 3}

\* what the upstream holds for a relation id: nothing, or the relation with
\* the elements its members point to present or absent
ByIdData(id) ==
    {[index |-> {}, relations |-> <<>>]}
    \cup {[index |-> ix, relations |-> <<rel>>] :
            rel \in FewRelations(id) \cup {StraightRelation(id)},
            ix \in {FullIndex, {}}}

\* the answers to the attempts of one single-relation call
ByIdScripts(id) ==
    {Uniform(k, n) \o <<Answer("ok", d, 0)>> :
        k \in {"timeout", "network"}, n \in 0..(max_retries - 1),
        d \in ByIdData(id)}
    \cup {Uniform(k, max_retries) : k \in TransientKinds}
    \cup {Uniform(k, 1) : k \in FatalKinds}

RelationWithId(data, id) ==
    SelectSeq(data.relations, LAMBDA rel : rel.id = id)

\* an id the upstream does not know reported as an upstream outage
by_id_outcome_unavailable(fetched, id) ==
    IF fetched.status # "returned"
    THEN [restriction |-> None, error |-> api_error(fetched.error)]
    ELSE IF RelationWithId(fetched.result, id) = <<>>
    THEN [restriction |-> None, error |-> "UpstreamUnavailable"]
    ELSE [restriction |-> validate_relation(RelationWithId(fetched.result, id)[1],
                                            fetched.result.index),
          error |-> "none"]

\* the route's result from the finished upstream call: the client's failure,
\* not-found when the answer does not hold the relation, else the validated
\* relation
by_id_outcome(fetched, id) ==
    IF fetched.status # "returned"
    THEN [restriction |-> None, error |-> api_error(fetched.error)]
    ELSE IF RelationWithId(fetched.result, id) = <<>>
    THEN [restriction |-> None, error |-> "InvalidRequest"]
    ELSE [restriction |-> validate_relation(RelationWithId(fetched.result, id)[1],
                                            fetched.result.index),
          error |-> "none"]

\* the HTTP status a route result is sent with
http_status(error) ==
    CASE error = "none"                      -> 200
      [] error = "InvalidRequest"            -> 404
      [] error = "UpstreamRateLimited"       -> 429
      [] error = "UpstreamTimeout"           -> 504
      [] error = "UpstreamUnavailable"       -> 503
      [] error = "MalformedUpstreamResponse" -> 502

http_response(outcome) ==
    [status |-> http_status(outcome.error),
     body   |-> IF outcome.error = "none"
                THEN [restriction |-> outcome.restriction]
                ELSE [error |-> outcome.error, detail |-> ""]]

\* ApiService.getRestrictionById: if (!response.ok)
\* throw new Error(error.detail || error.error); return response.json()
getRestrictionById(response) ==
    IF response.status >= 200 /\ response.status <= 299
    THEN [value |-> response.body, settled |-> "fulfilled"]
    ELSE [settled |-> "rejected",
          message |-> IF response.body.detail # "" THEN response.body.detail
                      ELSE response.body.error]

\* a single-relation lookup served from the bounding-box entries when one of
\* them holds a restriction with the id
by_id_resolve_from_bbox_cache(c, t, fetched, id) ==
    LET holding == SelectSeq(Live(c, t),
                       LAMBDA e : \E k \in 1..Len(e.value.restrictions) :
                                     e.value.restrictions[k].id = id)
    IN  IF holding = <<>>
        THEN by_id_outcome(fetched, id)
        ELSE [restriction |->
                  SelectSeq(holding[1].value.restrictions,
                            LAMBDA r : r.id = id)[1],
              error |-> "none"]

\* the route "directly queries Overpass for single relation": its result
\* comes from the upstream call alone, the CacheService (whose get and set
\* take a bounding box) is not consulted
by_id_resolve(c, t, fetched, id) == by_id_outcome(fetched, id)

\* the single-relation endpoint runs next to the bounding-box endpoint, on
\* the same cache
InitById == Init

\* one request of the single-relation endpoint, from the frontend's call to
\* the promise it gets back
GetRestrictionById(id, script) ==
    LET c       == FetchRun(NewClient, script)
        outcome == by_id_resolve(cache, now, c, id)
    IN  /\ c.status # "running"
        /\ lastDone' = [calls |-> Consumed(NewClient, script), id |-> id,
                        error |-> outcome.error,
                        op |-> "get_restriction_by_id",
                        http |-> http_response(outcome),
                        promise |-> getRestrictionById(http_response(outcome))]
        /\ UNCHANGED <<req, engineVars, uiVars, cacheVars, cacheHist, keyVars,
                       fetchVars>>

\* the bounding-box requests made around the lookups
ByIdBoxes == {BoxA, BoxB}

NextById ==
    \/ \E id \in RelationIds : \E sc \in ByIdScripts(id) : GetRestrictionById(id, sc)
    \/ \E b \in ByIdBoxes : GetRestrictions("r1", b)
    \/ \E d \in UpstreamData : FetchCompletes("r1", <<Answer("ok", d, 0)>>)

SpecById == InitById /\ [][NextById]_vars

(* C20: a single-relation request whose upstream answer arrived and does not *)
(* hold the relation ends as InvalidRequest, sent as not found; the answer   *)
(* that showed the absence is the last attempt made, the failure is none of  *)
(* the Upstream* kinds, and the frontend's call settles as a rejected        *)
(* promise carrying that error.                                              *)
AnsweredAbsent(done) ==
    /\ done.op = "get_restriction_by_id"
    /\ done.calls # <<>>
    /\ done.calls[Len(done.calls)].kind = "ok"
    /\ \A k \in 1..Len(done.calls[Len(done.calls)].data.relations) :
          done.calls[Len(done.calls)].data.relations[k].id # done.id

C20_UnknownIdNotFound ==
    AnsweredAbsent(lastDone) =>
        /\ lastDone.error = "InvalidRequest"
        /\ lastDone.error \notin
              {"UpstreamTimeout", "UpstreamRateLimited", "UpstreamUnavailable"}
        /\ lastDone.http.status = 404
        /\ \A k \in 1..(Len(lastDone.calls) - 1) : lastDone.calls[k].kind # "ok"
        /\ lastDone.promise = [settled |-> "rejected", message |-> "InvalidRequest"]

\* the upstream answered the first attempt without the relation
C20_Witness ==
    /\ AnsweredAbsent(lastDone)
    /\ Len(lastDone.calls) = 1
    /\ lastDone.error = "InvalidRequest"
    /\ lastDone.promise.settled = "rejected"

(* C21: a single-relation lookup leaves the cache as it is, so it overwrites *)
(* no entry stored under a bounding-box key; what it returns is the          *)
(* validation of the relation in the upstream answer to this very lookup,    *)
(* never a restriction taken from a bounding-box entry, whatever boxes were  *)
(* fetched before; and every key in the cache is the key of a bounding box,  *)
(* no entry is keyed by a relation id.                                       *)
LastData(done) == done.calls[Len(done.calls)].data

C21_State ==
    /\ \A i \in 1..Len(cache) : \E b \in FlowBoxes : cache[i].key = make_key(b)
    /\ (lastDone.op = "get_restriction_by_id" /\ lastDone.error = "none") =>
          /\ lastDone.calls[Len(lastDone.calls)].kind = "ok"
          /\ \E k \in 1..Len(LastData(lastDone).relations) :
                /\ LastData(lastDone).relations[k].id = lastDone.id
                /\ lastDone.promise.value.restriction =
                       validate_relation(LastData(lastDone).relations[k],
                                         LastData(lastDone).index)

C21_Step ==
    lastDone'.op = "get_restriction_by_id"
        => (cache' = cache /\ insertedAt' = insertedAt)

-----------------------------------------------------------------------------
(* The bounding-box endpoint called with and without its optional filters   *)

StatusFilters == {NoType, "error", "ok"}

TypeFilters == {NoType, "no_left_turn"}

\* the upstream data of the filtered requests: mixed statuses and types
FilterData ==
    {[index |-> FullIndex, relations |-> <<GoodRelation(1), EmptyRelation(2)>>],
     [index |-> FullIndex, relations |-> <<StraightRelation(1), GoodRelation(2)>>]}

InitFiltered == Init

NextFiltered ==
    \/ \E r \in Requests, b \in ByIdBoxes, st \in StatusFilters, ty \in TypeFilters :
          GetRestrictionsFiltered(r, b, st, ty)
    \/ \E r \in Requests, d \in FilterData : FetchCompletes(r, <<Answer("ok", d, 0)>>)
    \/ ClearCache

SpecFiltered == InitFiltered /\ [][NextFiltered]_vars

(* C22: whatever status and type filters a request carries, the entry it     *)
(* writes for its bounding box is the whole validated result of the data     *)
(* fetched, stored under the key of the box alone, and the response is that  *)
(* result narrowed by the filters; a request without filters answered from   *)
(* the cache returns the whole entry, so every restriction of the box, also  *)
(* when the entry was written by a filtered request.                         *)
WholeResult(data) ==
    [restrictions |->
        [i \in 1..Len(data.relations) |->
            validate_relation(data.relations[i], data.index)]]

Passes(r, status, type) ==
    /\ (status = "none" \/ r.status = status)
    /\ (type = "none" \/ r.restriction_type = type)

C22_State ==
    /\ \A i \in 1..Len(cache) :
          /\ \E b \in FlowBoxes : cache[i].key = make_key(b)
          /\ \E d \in FilterData : cache[i].value = WholeResult(d)
    /\ SetBy(lastDone) =>
          /\ lastDone.storedAfter = WholeResult(LastData(lastDone))
          /\ \A k \in 1..Len(lastDone.storedAfter.restrictions) :
                LET r == lastDone.storedAfter.restrictions[k]
                IN  Passes(r, lastDone.status, lastDone.type)
                    <=> \E m \in 1..Len(lastDone.response.restrictions) :
                           lastDone.response.restrictions[m] = r
          /\ \A m \in 1..Len(lastDone.response.restrictions) :
                Passes(lastDone.response.restrictions[m], lastDone.status,
                       lastDone.type)

C22_Step ==
    (/\ lastDone'.op = "get_restrictions"
     /\ lastDone'.calls = <<>>
     /\ lastDone'.status = "none"
     /\ lastDone'.type = "none")
    => \E i \in 1..Len(cache) :
          /\ cache[i].key = make_key(lastDone'.bbox)
          /\ cache[i].value = lastDone'.response

C22_FiltersAfterCaching == [](C22_State) /\ [][C22_Step]_vars

\* a request filtered to status error got one restriction back and left the
\* two restrictions of the box in the cache
C22_Witness ==
    /\ SetBy(lastDone)
    /\ lastDone.status = "error"
    /\ Len(lastDone.response.restrictions) = 1
    /\ Len(lastDone.storedAfter.restrictions) = 2
    /\ cache_get(cache, lastDone.bbox, now) = lastDone.storedAfter

\* an unfiltered request was answered from the cache with both restrictions
\* of the box
C22_WitnessUnfilteredHit ==
    /\ lastDone.op = "get_restrictions"
    /\ lastDone.calls = <<>>
    /\ lastDone.status = "none"
    /\ lastDone.type = "none"
    /\ Len(lastDone.response.restrictions) = 2

-----------------------------------------------------------------------------
(* MapContainer and MarkerCluster: the list App displays is narrowed by the *)
(* filters and handed to the marker layer, whose sync effect runs after     *)
(* every render                                                              *)

\* the keys of RESTRICTION_SVGS
RESTRICTION_SVGS ==
    {"only_left_turn", "only_right_turn", "only_straight_on", "only_u_turn",
     "no_left_turn", "no_right_turn", "no_straight_on", "no_u_turn"}

\* getRestrictionSvg: the type's drawing, or the "?" drawing
getRestrictionSvg(restrictionType) ==
    IF restrictionType # NoType /\ restrictionType \in RESTRICTION_SVGS
    THEN restrictionType
    ELSE "unknown"

\* createRestrictionIcon: size by highlight, drawing by type, badge by status
createRestrictionIcon(status, isHighlighted, restrictionType) ==
    [size  |-> IF isHighlighted THEN 32 ELSE 26,
     svg   |-> getRestrictionSvg(restrictionType),
     badge |-> IF status = "error" THEN "!"
               ELSE IF status = "warning" THEN "?" ELSE ""]

\* the list narrowed by the status checkboxes alone
filteredRestrictions_statusOnly(filters, restrictions) ==
    SelectSeq(restrictions, LAMBDA r : StatusShown(filters, r.status))

\* MapContainer: restrictions.filter(...), each test a "return false"
filteredRestrictions(filters, restrictions) ==
    SelectSeq(restrictions,
        LAMBDA r :
            /\ ~(r.status = "ok" /\ ~filters.showOk)
            /\ ~(r.status = "warning" /\ ~filters.showWarnings)
            /\ ~(r.status = "error" /\ ~filters.showErrors)
            /\ ~(/\ filters.restrictionType # NoType
                 /\ r.restriction_type # filters.restrictionType))

\* App: restrictions = saIssues || viewRestrictions ([] is truthy)
displayedRestrictions(u) ==
    IF u.saIssues # NoList THEN u.saIssues.list ELSE u.restrictions

\* App: meta = saIssuesMeta || viewMeta
displayedMeta(u) ==
    IF u.saIssuesMeta # null THEN u.saIssuesMeta ELSE u.meta

Red == "#dc2626"

Amber == "#f59e0b"

Green == "#22c55e"

\* a cluster icon that looks for warnings first
createClusterIcon_warningFirst(markers) ==
    LET hasError   == \E m \in markers : m.restriction.status = "error"
        hasWarning == \E m \in markers : m.restriction.status = "warning"
        count      == Cardinality(markers)
    IN  [size    |-> IF count >= 100 THEN 50 ELSE IF count >= 10 THEN 44 ELSE 36,
         bgColor |-> IF hasWarning THEN Amber ELSE IF hasError THEN Red ELSE Green]

\* createClusterIcon(cluster): markers is cluster.getAllChildMarkers(); the
\* flags are read from the restriction stored on each marker
createClusterIcon(markers) ==
    LET hasError   == \E m \in markers : m.restriction.status = "error"
        hasWarning == \E m \in markers : m.restriction.status = "warning"
        count      == Cardinality(markers)
    IN  [size    |-> IF count >= 100 THEN 50 ELSE IF count >= 10 THEN 44 ELSE 36,
         bgColor |-> IF hasError THEN Red ELSE IF hasWarning THEN Amber ELSE Green]

\* L.marker([lat, lon], {icon}) with marker.restriction and the popup bound
NewMarker(restriction, icon) ==
    [restriction |-> restriction, icon |-> icon,
     position |-> restriction.location, popup |-> restriction]

\* restrictions.forEach of the sync effect, from position k on: a restriction
\* without location is skipped, an existing marker gets setIcon, a new id
\* gets a new marker
RECURSIVE add_or_update(_, _, _, _)
add_or_update(currentMarkers, restrictions, k, highlightedId) ==
    IF k > Len(restrictions) THEN currentMarkers
    ELSE LET restriction   == restrictions[k]
             isHighlighted == restriction.id = highlightedId
             icon == createRestrictionIcon(restriction.status, isHighlighted,
                                           restriction.restriction_type)
             after ==
                 IF restriction.location = 0 THEN currentMarkers
                 ELSE IF restriction.id \in DOMAIN currentMarkers
                 THEN [currentMarkers EXCEPT ![restriction.id].icon = icon]
                 ELSE [id \in DOMAIN currentMarkers \cup {restriction.id} |->
                          IF id = restriction.id
                          THEN NewMarker(restriction, icon)
                          ELSE currentMarkers[id]]
         IN  add_or_update(after, restrictions, k + 1, highlightedId)

\* the sync effect of MarkerCluster: markers whose id is not among the new
\* ids are removed, then the list is walked; the cluster group holds the
\* markers of the map (removeLayer with delete, addLayer with set)
MarkerClusterSync(currentMarkers, restrictions, highlightedId) ==
    LET newRestrictionIds == {restrictions[k].id : k \in 1..Len(restrictions)}
        kept == [id \in DOMAIN currentMarkers \cap newRestrictionIds |->
                    currentMarkers[id]]
    IN  add_or_update(kept, restrictions, 1, highlightedId)

\* a render of App down to MarkerCluster and the effect that follows it
Rendered(u) ==
    LET list == filteredRestrictions(u.filters, displayedRestrictions(u))
    IN  [u EXCEPT !.shown = list,
                  !.markers = MarkerClusterSync(u.markers, list, u.highlightedId)]

\* a relation whose via is a way and whose from member is missing
ViaWayRelation(id) ==
    [members |-> <<Member("to", "way", ToWay), Member("via", "way", ToWay)>>,
     restriction |-> "no_left_turn",
     oneway_conflict |-> FALSE, id |-> id]

\* the upstream data behind the responses the map is shown
MapData ==
    {[index |-> {}, relations |-> <<>>],
     [index |-> FullIndex, relations |-> <<GoodRelation(1), WarnRelation(2)>>],
     [index |-> FullIndex, relations |-> <<ViaWayRelation(1), GoodRelation(2)>>],
     [index |-> {}, relations |-> <<GoodRelation(1), EmptyRelation(2)>>],
     [index |-> FullIndex, relations |-> <<ViaWayRelation(1), WarnRelation(2)>>],
     [index |-> FullIndex, relations |-> <<StraightRelation(2)>>]}

MapTypeOptions == {"", "no_left_turn", "only_straight_on"}

InitMap ==
    /\ ui = NewUi
    /\ EngineIdle
    /\ CacheIdle
    /\ KeyIdle
    /\ FetchIdle
    /\ ApiIdle

\* useRestrictions: setRestrictions(response.restrictions); setMeta(response.meta)
MapResponseArrives(data) ==
    /\ ui' = Rendered([ui EXCEPT !.restrictions = validate(data),
                                 !.meta = Summary(validate(data))])
    /\ UNCHANGED <<engineVars, cacheVars, cacheHist, keyVars, fetchVars, apiVars>>

\* FilterPanel.handleCheckboxChange through onFiltersChange = setFilters
MapCheckboxChange(key) ==
    /\ ui' = Rendered([ui EXCEPT !.filters[key] = ~ui.filters[key]])
    /\ UNCHANGED <<engineVars, cacheVars, cacheHist, keyVars, fetchVars, apiVars>>

\* FilterPanel.handleTypeChange through onFiltersChange = setFilters
MapTypeChange(value) ==
    /\ ui' = Rendered([ui EXCEPT !.filters.restrictionType =
                                     IF value = "" THEN NoType ELSE value])
    /\ UNCHANGED <<engineVars, cacheVars, cacheHist, keyVars, fetchVars, apiVars>>

\* App.handleHighlightRestriction: setHighlightedId(id)
handleHighlightRestriction(id) ==
    /\ ui' = Rendered([ui EXCEPT !.highlightedId = id])
    /\ UNCHANGED <<engineVars, cacheVars, cacheHist, keyVars, fetchVars, apiVars>>

NextMap ==
    \/ \E d \in MapData : MapResponseArrives(d)
    \/ \E key \in {"showOk", "showWarnings", "showErrors"} : MapCheckboxChange(key)
    \/ \E v \in MapTypeOptions : MapTypeChange(v)
    \/ \E id \in {0, 1, 2} : handleHighlightRestriction(id)

SpecMap == InitMap /\ [][NextMap]_vars

(* C23: the marker layer is handed exactly the restrictions whose status    *)
(* checkbox is on and whose type is the chosen one (any type when none is   *)
(* chosen), in the order of the list; a change of the filters leaves the    *)
(* list itself as it was.                                                    *)
C23_Passes(r) ==
    /\ \/ r.status = "ok" /\ ui.filters.showOk
       \/ r.status = "warning" /\ ui.filters.showWarnings
       \/ r.status = "error" /\ ui.filters.showErrors
    /\ \/ ui.filters.restrictionType = NoType
       \/ ui.filters.restrictionType = r.restriction_type

C23_State ==
    LET all == ui.restrictions
        passing == {i \in 1..Len(all) : C23_Passes(all[i])}
    IN  /\ Len(ui.shown) = Cardinality(passing)
        /\ \A i \in 1..Len(all) :
              (i \in passing) <=> (\E k \in 1..Len(ui.shown) : ui.shown[k] = all[i])
        /\ \A k \in 1..Len(ui.shown) : \E i \in passing : all[i] = ui.shown[k]

C23_Step == ui'.filters # ui.filters => ui'.restrictions = ui.restrictions

C23_FilteredIffShown == [](C23_State) /\ [][C23_Step]_vars

\* two restrictions are held, a type is chosen and a checkbox is off: one
\* restriction passes, the other does not, and the list still holds both
C23_Witness ==
    /\ Len(ui.restrictions) = 2
    /\ Len(ui.shown) = 1
    /\ ui.filters.restrictionType = "no_left_turn"
    /\ ~ui.filters.showWarnings
    /\ ui.restrictions[2].restriction_type # "no_left_turn"

\* the ok restrictions are unchecked and the held ok restriction is not shown
C23_WitnessStatusOff ==
    /\ ~ui.filters.showOk
    /\ ui.filters.restrictionType = NoType
    /\ \E i \in 1..Len(ui.restrictions) : ui.restrictions[i].status = "ok"
    /\ Len(ui.shown) = 1
    /\ Len(ui.restrictions) = 2

(* C24: whatever markers the cluster group puts into one cluster, the       *)
(* cluster's icon is red when one of their restrictions has status error,   *)
(* amber when none has but one has status warning, and green otherwise.     *)
Clusters == {S \in SUBSET DOMAIN ui.markers : S # {}}

StatusesIn(S) == {ui.markers[id].restriction.status : id \in S}

C24_WorstStatusColour ==
    \A S \in Clusters :
        LET icon == createClusterIcon({ui.markers[id] : id \in S})
        IN  /\ "error" \in StatusesIn(S) => icon.bgColor = Red
            /\ "error" \notin StatusesIn(S) /\ "warning" \in StatusesIn(S)
                  => icon.bgColor = Amber
            /\ StatusesIn(S) \subseteq {"ok"} => icon.bgColor = Green

\* a cluster of an error and a warning, which is red, beside the cluster of
\* the warning alone, which is amber
C24_Witness ==
    /\ DOMAIN ui.markers = {1, 2}
    /\ ui.markers[1].restriction.status = "error"
    /\ ui.markers[2].restriction.status = "warning"
    /\ createClusterIcon({ui.markers[1], ui.markers[2]}).bgColor = Red
    /\ createClusterIcon({ui.markers[2]}).bgColor = Amber

(* C29: after the sync effect has run, the ids in the marker map are        *)
(* exactly the ids of the restrictions it was handed that have a location.  *)
LocatedIds == {ui.shown[k].id : k \in {j \in 1..Len(ui.shown) : ui.shown[j].location # 0}}

C29_MarkerIdsAreLocatedIds == DOMAIN ui.markers = LocatedIds

\* what does hold of the marker map: no marker for an id that was not
\* handed over, a marker for every id handed over with a location
C29_Bounds ==
    /\ LocatedIds \subseteq DOMAIN ui.markers
    /\ DOMAIN ui.markers \subseteq {ui.shown[k].id : k \in 1..Len(ui.shown)}

\* a marker is held for a restriction that was handed over without location
C29_StaleMarker ==
    \E k \in 1..Len(ui.shown) :
        /\ ui.shown[k].location = 0
        /\ ui.shown[k].id \in DOMAIN ui.markers

(* C30: after the sync effect has run, every marker agrees with the         *)
(* restriction of its id that was handed over: the icon is the one made     *)
(* from its status, type and highlight, the stored restriction and the      *)
(* popup's restriction are that restriction, the position is its location.  *)
CurrentOf(id) ==
    ui.shown[CHOOSE k \in 1..Len(ui.shown) : ui.shown[k].id = id]

C30_IconIsCurrent ==
    \A id \in DOMAIN ui.markers \cap LocatedIds :
        ui.markers[id].icon =
            createRestrictionIcon(CurrentOf(id).status, id = ui.highlightedId,
                                  CurrentOf(id).restriction_type)

C30_MarkersReflectCurrent ==
    /\ C30_IconIsCurrent
    /\ \A id \in DOMAIN ui.markers \cap LocatedIds :
          /\ ui.markers[id].restriction = CurrentOf(id)
          /\ ui.markers[id].popup = CurrentOf(id)
          /\ ui.markers[id].position = CurrentOf(id).location

\* a marker whose icon shows the error of the current restriction while the
\* restriction stored on it is the earlier, ok one at the earlier position
C30_StaleRestriction ==
    /\ 1 \in DOMAIN ui.markers \cap LocatedIds
    /\ CurrentOf(1).status = "error"
    /\ ui.markers[1].icon.badge = "!"
    /\ ui.markers[1].restriction.status = "ok"
    /\ ui.markers[1].position # CurrentOf(1).location
    /\ createClusterIcon({ui.markers[1]}).bgColor = Green

-----------------------------------------------------------------------------
(* useRestrictions under the map's bounds changes: the bbox is debounced,   *)
(* every new debounced value and every refetch starts a request, requests   *)
(* settle in any order                                                       *)

MaxRequests == 2

HookBoxes == {BoxA, BoxB}

\* what the backend answers for a box when it answers with data
HookData(bbox) ==
    IF bbox = BoxA
    THEN [index |-> FullIndex, relations |-> <<GoodRelation(1), EmptyRelation(2)>>]
    ELSE [index |-> FullIndex, relations |-> <<WarnRelation(1)>>]

\* the body of a 200 response: restrictions and meta
ResponseBody(bbox) ==
    [restrictions |-> validate(HookData(bbox)),
     meta |-> Summary(validate(HookData(bbox)))]

\* what fetch can come back with for a box: the data, an error body with or
\* without detail, an error whose body is not JSON, or no response at all
HookResponses(bbox) ==
    {[status |-> 200, body |-> ResponseBody(bbox), json |-> TRUE],
     [status |-> 504, body |-> [error |-> "UpstreamTimeout", detail |-> "Overpass API timed out"],
      json |-> TRUE],
     [status |-> 429, body |-> [error |-> "UpstreamRateLimited", detail |-> ""],
      json |-> TRUE],
     [status |-> 502, body |-> [text |-> "Bad Gateway"], json |-> FALSE],
     [status |-> 0, body |-> [text |-> ""], json |-> FALSE]}

\* ApiService.getRestrictions after the await of fetch: fetch itself rejects
\* without a response; if (!response.ok) the body's detail || error is
\* thrown, 'Unknown error' / `HTTP ${status}` standing in for a body that
\* does not parse; otherwise response.json()
getRestrictions(response) ==
    IF response.status = 0
    THEN [settled |-> "rejected", message |-> "Failed to fetch"]
    ELSE IF response.status >= 200 /\ response.status <= 299
    THEN [value |-> response.body, settled |-> "fulfilled"]
    ELSE LET error == IF ~response.json
                      THEN [error |-> "Unknown error",
                            detail |-> "HTTP " \o ToString(response.status)]
                      ELSE response.body
         IN  [settled |-> "rejected",
              message |-> IF error.detail # "" THEN error.detail ELSE error.error]

\* a hook whose catch branch keeps what it held
settle_keeping_on_failure(u, q, outcome) ==
    IF outcome.settled = "fulfilled"
    THEN [u EXCEPT !.restrictions = outcome.value.restrictions,
                   !.meta = outcome.value.meta,
                   !.loading = FALSE,
                   !.inflight = u.inflight \ {q}, !.heldFrom = q.n]
    ELSE [u EXCEPT !.error = outcome.message,
                   !.loading = FALSE,
                   !.inflight = u.inflight \ {q}, !.heldFrom = q.n]

\* fetchRestrictions from the await on, for request q: try sets restrictions
\* and meta, catch sets error and empties them, finally sets loading false
settle(u, q, outcome) ==
    IF outcome.settled = "fulfilled"
    THEN [u EXCEPT !.restrictions = outcome.value.restrictions,
                   !.meta = outcome.value.meta,
                   !.loading = FALSE,
                   !.inflight = u.inflight \ {q}, !.heldFrom = q.n]
    ELSE [u EXCEPT !.error = outcome.message,
                   !.restrictions = <<>>, !.meta = null,
                   !.loading = FALSE,
                   !.inflight = u.inflight \ {q}, !.heldFrom = q.n]

\* fetchRestrictions up to the await: without a debounced box the list and
\* meta are emptied; with one, loading is set, error cleared and the request
\* goes out
fetchRestrictions(u) ==
    IF u.debouncedBbox = NoBbox
    THEN [u EXCEPT !.restrictions = <<>>, !.meta = null]
    ELSE [u EXCEPT !.loading = TRUE, !.error = NoError,
                   !.started = u.started + 1,
                   !.inflight = u.inflight \cup
                                    {[n |-> u.started + 1, bbox |-> u.debouncedBbox]}]

InitHook ==
    /\ ui = NewUi
    /\ EngineIdle
    /\ CacheIdle
    /\ KeyIdle
    /\ FetchIdle
    /\ ApiIdle

\* MapEventHandler (moveend, load) -> App.handleBoundsChange: setBbox(newBbox);
\* useDebounce restarts its timer on the new value
handleBoundsChange(newBbox) ==
    /\ ui' = [ui EXCEPT !.bbox = newBbox, !.timer = TRUE]
    /\ UNCHANGED <<engineVars, cacheVars, cacheHist, keyVars, fetchVars, apiVars>>

\* the debounce timer fires: debouncedBbox becomes bbox, fetchRestrictions
\* is a new callback and the effect calls it
DebounceFires ==
    /\ ui.timer
    /\ ui.started < MaxRequests
    /\ ui' = fetchRestrictions([ui EXCEPT !.debouncedBbox = ui.bbox,
                                          !.timer = FALSE])
    /\ UNCHANGED <<engineVars, cacheVars, cacheHist, keyVars, fetchVars, apiVars>>

\* refetch: setFetchTrigger(t => t + 1), and the effect calls fetchRestrictions
refetch ==
    /\ ui.started < MaxRequests
    /\ ui' = fetchRestrictions(ui)
    /\ UNCHANGED <<engineVars, cacheVars, cacheHist, keyVars, fetchVars, apiVars>>

\* the promise of request q settles with what fetch came back with
RequestSettles(q, response) ==
    /\ q \in ui.inflight
    /\ ui' = settle(ui, q, getRestrictions(response))
    /\ UNCHANGED <<engineVars, cacheVars, cacheHist, keyVars, fetchVars, apiVars>>

SomeRequestSettles(n) ==
    \E q \in ui.inflight : q.n = n /\ \E resp \in HookResponses(q.bbox) :
        RequestSettles(q, resp)

NextHook ==
    \/ \E b \in HookBoxes : handleBoundsChange(b)
    \/ DebounceFires
    \/ refetch
    \/ \E n \in 1..MaxRequests : SomeRequestSettles(n)

SpecHook == InitHook /\ [][NextHook]_vars

\* every pending fetch promise settles: the browser answers or gives up
SpecHookLive ==
    /\ InitHook
    /\ [][NextHook]_vars
    /\ \A n \in 1..MaxRequests : WF_vars(SomeRequestSettles(n))

(* C25: a request that fails leaves the hook with no restrictions, meta     *)
(* null, the failure's message as error and loading false; every request    *)
(* that was started settles, and the step on which it settles sets loading  *)
(* to false whether it succeeded or failed.                                  *)
Pending(n) == \E q \in ui.inflight : q.n = n

C25_FailureStep ==
    \A q \in ui.inflight : \A resp \in HookResponses(q.bbox) :
        RequestSettles(q, resp) /\ getRestrictions(resp).settled = "rejected" =>
            /\ ui'.restrictions = <<>>
            /\ ui'.meta = null
            /\ ui'.error = getRestrictions(resp).message
            /\ ui'.error # NoError
            /\ ui'.loading = FALSE

C25_SettleStep ==
    \A n \in 1..MaxRequests : Pending(n) /\ ~Pending(n)' => ui'.loading = FALSE

C25_FailureEmptiesAndLoadingEnds ==
    /\ [][C25_FailureStep /\ C25_SettleStep]_vars
    /\ \A n \in 1..MaxRequests : Pending(n) ~> ~Pending(n)

\* a request for a box was answered 502 with a body that is not JSON after
\* an earlier one had brought data: nothing is held, the message is the
\* stand-in one, loading is off
C25_Witness ==
    /\ ui.started = 2
    /\ ui.heldFrom = 2
    /\ ui.inflight = {}
    /\ ui.error = "HTTP 502"
    /\ ui.restrictions = <<>>
    /\ ui.meta = null
    /\ ~ui.loading

(* C28: once no request is in flight, what the hook holds is the outcome    *)
(* of the request started last, the one for the latest debounced bounding   *)
(* box: its restrictions and meta with no error when it brought data, its   *)
(* message with nothing else when it failed.                                 *)
C28_LatestWins ==
    ui.inflight = {} /\ ui.started > 0 =>
        /\ ui.heldFrom = ui.started
        /\ \/ /\ ui.error = NoError
              /\ ui.restrictions = ResponseBody(ui.debouncedBbox).restrictions
              /\ ui.meta = ResponseBody(ui.debouncedBbox).meta
           \/ /\ ui.error # NoError
              /\ ui.restrictions = <<>>
              /\ ui.meta = null

\* the box was BoxA, then BoxB; BoxB's request settled first and BoxA's
\* after it: all is settled, the debounced box is BoxB and the hook holds
\* BoxA's restrictions
C28_OlderOverwrites ==
    /\ ui.inflight = {}
    /\ ui.started = 2
    /\ ui.heldFrom = 1
    /\ ui.debouncedBbox = BoxB
    /\ ui.error = NoError
    /\ ui.restrictions = ResponseBody(BoxA).restrictions

\* the earlier request failed and the later brought data: the data is held
\* under the earlier request's error message
C28_ErrorOutlivesSuccess ==
    /\ ui.inflight = {}
    /\ ui.heldFrom = ui.started
    /\ ui.error # NoError
    /\ ui.restrictions # <<>>

-----------------------------------------------------------------------------
(* SearchBox: the text typed into the input, as a sequence of characters,   *)
(* is looked up among the restrictions App displays                          *)

Digits == <<"0", "1", "2", "3", "4", "5", "6", "7", "8", "9">>

IsDigit(c) == \E d \in 1..Len(Digits) : Digits[d] = c

DigitValue(c) == (CHOOSE d \in 1..Len(Digits) : Digits[d] = c) - 1

\* String.prototype.trim: white space taken off both ends
RECURSIVE trim(_)
trim(str) ==
    IF str = <<>> THEN str
    ELSE IF Head(str) = " " THEN trim(Tail(str))
    ELSE IF str[Len(str)] = " " THEN trim(SubSeq(str, 1, Len(str) - 1))
    ELSE str

\* the longest run of digits str starts with
RECURSIVE LeadingDigits(_)
LeadingDigits(str) ==
    IF str = <<>> \/ ~IsDigit(Head(str)) THEN <<>>
    ELSE <<Head(str)>> \o LeadingDigits(Tail(str))

\* the value of a run of digits read in base 10
RECURSIVE DecimalValue(_)
DecimalValue(digits) ==
    IF digits = <<>> THEN 0
    ELSE 10 * DecimalValue(SubSeq(digits, 1, Len(digits) - 1))
         + DigitValue(digits[Len(digits)])

\* a parseInt that takes the whole text or nothing
parseInt_strict(str) ==
    LET t      == trim(str)
        signed == t # <<>> /\ Head(t) \in {"+", "-"}
        body   == IF signed THEN Tail(t) ELSE t
        digits == LeadingDigits(body)
    IN  IF digits = <<>> \/ digits # body
        THEN [value |-> 0, nan |-> TRUE]
        ELSE [value |-> IF signed /\ Head(t) = "-"
                        THEN 0 - DecimalValue(digits) ELSE DecimalValue(digits),
              nan |-> FALSE]

\* parseInt(str, 10): leading white space skipped, an optional sign, then
\* the digits up to the first character that is not one; NaN without digits
parseInt(str) ==
    LET t      == trim(str)
        signed == t # <<>> /\ Head(t) \in {"+", "-"}
        body   == IF signed THEN Tail(t) ELSE t
        digits == LeadingDigits(body)
    IN  IF digits = <<>>
        THEN [value |-> 0, nan |-> TRUE]
        ELSE [value |-> IF signed /\ Head(t) = "-"
                        THEN 0 - DecimalValue(digits) ELSE DecimalValue(digits),
              nan |-> FALSE]

\* `Relation ${id} not found in current view`
NotFoundMessage(id) == "Relation " \o ToString(id) \o " not found in current view"

\* SearchBox.handleSearch over the state u
handleSearch_of(u) ==
    LET cleared == [u EXCEPT !.searchError = NoError]
        id      == parseInt(trim(u.searchValue))
        restrictions == displayedRestrictions(u)
        found   == \E k \in 1..Len(restrictions) : restrictions[k].id = id.value
    IN  IF trim(u.searchValue) = <<>>
        THEN [cleared EXCEPT !.highlightedId = 0]
        ELSE IF id.nan
        THEN [cleared EXCEPT !.searchError = "Please enter a valid relation ID"]
        ELSE IF found
        THEN [cleared EXCEPT !.highlightedId = id.value]
        ELSE [cleared EXCEPT !.searchError = NotFoundMessage(id.value)]

\* what the user types
SearchTexts ==
    {<<>>, <<" ">>, <<"a", "b">>, <<"1">>, <<" ", "2", " ">>, <<"7">>,
     <<"1", "x">>, <<"-", "1">>, <<"2", ".", "5">>}

\* the upstream data behind the restrictions the search runs over
SearchData ==
    {[index |-> {}, relations |-> <<>>],
     [index |-> FullIndex, relations |-> <<GoodRelation(1), WarnRelation(2)>>],
     [index |-> FullIndex, relations |-> <<GoodRelation(2)>>]}

InitSearch ==
    /\ ui = NewUi
    /\ EngineIdle
    /\ CacheIdle
    /\ KeyIdle
    /\ FetchIdle
    /\ ApiIdle

\* useRestrictions: setRestrictions(response.restrictions); setMeta(response.meta)
SearchResponseArrives(data) ==
    /\ ui' = [ui EXCEPT !.restrictions = validate(data),
                        !.meta = Summary(validate(data))]
    /\ UNCHANGED <<engineVars, cacheVars, cacheHist, keyVars, fetchVars, apiVars>>

\* the input's onChange: setSearchValue(e.target.value)
setSearchValue(text) ==
    /\ ui' = [ui EXCEPT !.searchValue = text]
    /\ UNCHANGED <<engineVars, cacheVars, cacheHist, keyVars, fetchVars, apiVars>>

\* the search button, or Enter in the input
handleSearch ==
    /\ ui' = handleSearch_of(ui)
    /\ UNCHANGED <<engineVars, cacheVars, cacheHist, keyVars, fetchVars, apiVars>>

\* the clear button, rendered while searchValue is not empty
handleClear ==
    /\ ui.searchValue # <<>>
    /\ ui' = [ui EXCEPT !.searchValue = <<>>, !.searchError = NoError,
                        !.highlightedId = 0]
    /\ UNCHANGED <<engineVars, cacheVars, cacheHist, keyVars, fetchVars, apiVars>>

NextSearch ==
    \/ \E d \in SearchData : SearchResponseArrives(d)
    \/ \E text \in SearchTexts : setSearchValue(text)
    \/ handleSearch
    \/ handleClear

SpecSearch == InitSearch /\ [][NextSearch]_vars

(* C26: a search with blank input clears the highlight; a search with input *)
(* that is not a number, or with the id of no current restriction, sets the *)
(* search error and leaves the highlight as it was; the highlight changes   *)
(* to an id only when that id is among the current restrictions.            *)
CurrentIds ==
    {displayedRestrictions(ui)[k].id : k \in 1..Len(displayedRestrictions(ui))}

\* the trimmed text is a number: an optional sign and digits, nothing else
IsNumber(str) == ~parseInt_strict(str).nan

C26_Blank == trim(ui.searchValue) = <<>>

C26_Step ==
    handleSearch =>
        /\ C26_Blank => ui'.highlightedId = 0
        /\ (/\ ~C26_Blank
            /\ \/ ~IsNumber(ui.searchValue)
               \/ parseInt_strict(ui.searchValue).value \notin CurrentIds)
              => /\ ui'.searchError # NoError
                 /\ ui'.highlightedId = ui.highlightedId
        /\ ui'.highlightedId \notin {0, ui.highlightedId}
              => ui'.highlightedId \in CurrentIds

C26_SearchHighlightsOnlyFound == [][C26_Step]_vars

\* the same with "not a number" read as "parseInt gives NaN"
C26_StepAsParsed ==
    handleSearch =>
        /\ C26_Blank => ui'.highlightedId = 0
        /\ (/\ ~C26_Blank
            /\ \/ parseInt(ui.searchValue).nan
               \/ parseInt(ui.searchValue).value \notin CurrentIds)
              => /\ ui'.searchError # NoError
                 /\ ui'.highlightedId = ui.highlightedId
        /\ ui'.highlightedId \notin {0, ui.highlightedId}
              => ui'.highlightedId \in CurrentIds

C26_AsParsed == [][C26_StepAsParsed]_vars

\* "1x" was searched for: restriction 1 is highlighted and no error is shown
C26_PrefixAccepted ==
    /\ ui.searchValue = <<"1", "x">>
    /\ ui.highlightedId = 1
    /\ ui.searchError = NoError
    /\ 1 \in CurrentIds

-----------------------------------------------------------------------------
(* App: the SA-wide issues beside the restrictions of the current view      *)

MaxSaCalls == 2

SaStatuses == {"error", "warning", "all"}

\* the relations behind the SA-wide answer
SaData ==
    [index |-> FullIndex, relations |-> <<ViaWayRelation(1), WarnRelation(2)>>]

\* the restrictions of SaData the status parameter asks for
SaIssuesOf(status) ==
    SelectSeq(validate(SaData),
              LAMBDA r : IF status = "all" THEN r.status \in {"error", "warning"}
                         ELSE r.status = status)

\* what fetch can come back with for /issues/sa?status=...
SaResponses(status) ==
    {[status |-> 200, body |-> [restrictions |-> SaIssuesOf(status),
                meta |-> Summary(SaIssuesOf(status))],
      json |-> TRUE],
     [status |-> 200, body |-> [restrictions |-> <<>>, meta |-> Summary(<<>>)],
      json |-> TRUE],
     [status |-> 503, body |-> [error |-> "UpstreamUnavailable", detail |-> ""],
      json |-> TRUE],
     [status |-> 0, body |-> [text |-> ""], json |-> FALSE]}

\* ApiService.getSAIssues after the await of fetch: the same lines as
\* getRestrictions
getSAIssues(response) == getRestrictions(response)

\* a fetchSAIssues whose catch branch also leaves the SA-wide view
sa_settle_clearing_on_failure(u, q, outcome) ==
    IF outcome.settled = "fulfilled"
    THEN [u EXCEPT !.saIssues = [list |-> outcome.value.restrictions],
                   !.saIssuesMeta = outcome.value.meta,
                   !.filters = [showOk |-> FALSE,
                                showWarnings |-> q.status \in {"warning", "all"},
                                showErrors |-> q.status \in {"error", "all"},
                                restrictionType |-> NoType],
                   !.saLoading = FALSE,
                   !.saPending = u.saPending \ {q}]
    ELSE [u EXCEPT !.saError = outcome.message,
                   !.saIssues = NoList, !.saIssuesMeta = null,
                   !.filters = DefaultFilters,
                   !.saLoading = FALSE,
                   !.saPending = u.saPending \ {q}]

\* fetchSAIssues from the await on, for call q: try sets saIssues, saIssuesMeta
\* and the filters, catch sets saError, finally sets saLoading false
sa_settle(u, q, outcome) ==
    IF outcome.settled = "fulfilled"
    THEN [u EXCEPT !.saIssues = [list |-> outcome.value.restrictions],
                   !.saIssuesMeta = outcome.value.meta,
                   !.filters = [showOk |-> FALSE,
                                showWarnings |-> q.status \in {"warning", "all"},
                                showErrors |-> q.status \in {"error", "all"},
                                restrictionType |-> NoType],
                   !.saLoading = FALSE,
                   !.saPending = u.saPending \ {q}]
    ELSE [u EXCEPT !.saError = outcome.message,
                   !.saLoading = FALSE,
                   !.saPending = u.saPending \ {q}]

\* the upstream data behind the current view's responses
ViewData ==
    {[index |-> {}, relations |-> <<>>],
     [index |-> FullIndex, relations |-> <<GoodRelation(1), EmptyRelation(2)>>]}

InitApp ==
    /\ ui = NewUi
    /\ EngineIdle
    /\ CacheIdle
    /\ KeyIdle
    /\ FetchIdle
    /\ ApiIdle

\* fetchSAIssues up to the await: setSaLoading(true); setSaError(null)
fetchSAIssues(status) ==
    /\ ui.saStarted < MaxSaCalls
    /\ ui' = [ui EXCEPT !.saLoading = TRUE, !.saError = NoError,
                        !.saStarted = ui.saStarted + 1,
                        !.saPending = ui.saPending \cup
                                          {[status |-> status, n |-> ui.saStarted + 1]}]
    /\ UNCHANGED <<engineVars, cacheVars, cacheHist, keyVars, fetchVars, apiVars>>

\* the promise of call q settles with what fetch came back with
SaSettles(q, response) ==
    /\ q \in ui.saPending
    /\ ui' = sa_settle(ui, q, getSAIssues(response))
    /\ UNCHANGED <<engineVars, cacheVars, cacheHist, keyVars, fetchVars, apiVars>>

\* App.clearSAIssues
clearSAIssues ==
    /\ ui' = [ui EXCEPT !.saIssues = NoList, !.saIssuesMeta = null,
                        !.saError = NoError, !.filters = DefaultFilters]
    /\ UNCHANGED <<engineVars, cacheVars, cacheHist, keyVars, fetchVars, apiVars>>

\* useRestrictions: setRestrictions(response.restrictions); setMeta(response.meta)
ViewResponseArrives(data) ==
    /\ ui' = [ui EXCEPT !.restrictions = validate(data),
                        !.meta = Summary(validate(data))]
    /\ UNCHANGED <<engineVars, cacheVars, cacheHist, keyVars, fetchVars, apiVars>>

\* FilterPanel.handleCheckboxChange through onFiltersChange = setFilters
AppCheckboxChange(key) ==
    /\ ui' = [ui EXCEPT !.filters[key] = ~ui.filters[key]]
    /\ UNCHANGED <<engineVars, cacheVars, cacheHist, keyVars, fetchVars, apiVars>>

NextApp ==
    \/ \E status \in SaStatuses : fetchSAIssues(status)
    \/ \E q \in ui.saPending : \E resp \in SaResponses(q.status) : SaSettles(q, resp)
    \/ clearSAIssues
    \/ \E d \in ViewData : ViewResponseArrives(d)
    \/ \E key \in {"showOk", "showErrors"} : AppCheckboxChange(key)

SpecApp == InitApp /\ [][NextApp]_vars

(* C27: App displays the SA-wide list and meta exactly when saIssues is not *)
(* null and the current view's otherwise; saIssues turns non-null only on a *)
(* fetchSAIssues that succeeded and null only on clearSAIssues; a           *)
(* fetchSAIssues that failed leaves saIssues and the filters as they were.  *)
C27_State ==
    /\ ui.saIssues # NoList =>
          /\ displayedRestrictions(ui) = ui.saIssues.list
          /\ displayedMeta(ui) = ui.saIssuesMeta
          /\ ui.saIssuesMeta # null
    /\ ui.saIssues = NoList =>
          /\ displayedRestrictions(ui) = ui.restrictions
          /\ displayedMeta(ui) = ui.meta

SaSucceeds ==
    \E q \in ui.saPending : \E resp \in SaResponses(q.status) :
        SaSettles(q, resp) /\ getSAIssues(resp).settled = "fulfilled"

SaFails ==
    \E q \in ui.saPending : \E resp \in SaResponses(q.status) :
        SaSettles(q, resp) /\ getSAIssues(resp).settled = "rejected"

C27_Step ==
    /\ ui.saIssues = NoList /\ ui'.saIssues # NoList => SaSucceeds
    /\ ui.saIssues # NoList /\ ui'.saIssues = NoList => clearSAIssues
    /\ SaFails /\ ~SaSucceeds =>
          /\ ui'.saIssues = ui.saIssues
          /\ ui'.saIssuesMeta = ui.saIssuesMeta
          /\ ui'.filters = ui.filters
          /\ ui'.saError # NoError

C27_SaViewOnlyWhileLoaded == [](C27_State) /\ [][C27_Step]_vars

\* the SA-wide errors are displayed over a view that holds other
\* restrictions, a second fetchSAIssues has failed, and the filters are
\* still the ones the first one set
C27_Witness ==
    /\ ui.saIssues # NoList
    /\ ui.saStarted = 2
    /\ ui.saPending = {}
    /\ ui.saError # NoError
    /\ Len(ui.restrictions) = 2
    /\ Len(displayedRestrictions(ui)) = 1
    /\ displayedRestrictions(ui)[1].status = "error"
    /\ ui.filters = [showOk |-> FALSE, showWarnings |-> FALSE, showErrors |-> TRUE,
                     restrictionType |-> NoType]

\* an SA-wide answer without issues: the empty list is displayed, not the
\* view's restrictions
C27_WitnessEmptySa ==
    /\ ui.saIssues # NoList
    /\ ui.saIssues.list = <<>>
    /\ ui.restrictions # <<>>
    /\ displayedRestrictions(ui) = <<>>

====
